---- MODULE Spec2Model ----
(***************************************************************************)
(* Model of the text chunking engine of chatbot-rag-pipeline:              *)
(*   src/src/data_processing/text_processor.py  (TextChunk, TextProcessor) *)
(*                                                                         *)
(* A Python str is a sequence of one-character strings.  A character that  *)
(* has no ASCII form is written as itself ("é", "°") or as a named token   *)
(* (NBSP, RSQUO, NDASH, MDASH, ABBREV).  None is a reserved value of each   *)
(* argument type (NoneStr, NoneMeta).                                      *)
(***************************************************************************)
EXTENDS Integers, Sequences, FiniteSets, TLC

VARIABLES
    chunk_size,       \* self.chunk_size
    overlap,          \* self.overlap
    min_chunk_size,   \* self.min_chunk_size
    use_spacy,        \* self.use_spacy
    nlp,              \* self.nlp: the loaded sentence boundary detector
    pc,               \* position of the running call
    call,             \* the public method that was called
    title,            \* process_document: argument title
    content,          \* process_document: argument content
    metadata,         \* process_document: argument metadata
    doc_chunks,       \* process_document: local chunks (the title chunk, if any)
    sentences,        \* create_chunks_with_overlap: argument sentences
    i,                \* create_chunks_with_overlap: number of sentences consumed
    current_chunk,    \* create_chunks_with_overlap: local current_chunk
    overlap_buffer,   \* create_chunks_with_overlap: local overlap_buffer
    chunk_index,      \* create_chunks_with_overlap: local chunk_index
    chunks,           \* create_chunks_with_overlap: local chunks
    closed,           \* history: one record per buffer closed so far
    result,           \* the list of chunks returned by the call
    raised,           \* the exception the call ended in, or "none"
    value,            \* the string or labels returned by a call of another kind
    memo,             \* history: an earlier call, its arguments and its outcome
    generator_model,  \* EmbeddingsGenerator: self.model
    encoded,          \* history: how model.encode ended in the last batch
    connection,       \* VectorStorage: self.connection
    stats,            \* VectorStorage: self.stats, the two counters
    database,         \* the committed rows of the documents and text_chunks tables
    last_connect,     \* history: the most recent connect or disconnect and its result
    effect,           \* history: what the last VectorStorage call did to the database
    requested         \* history: the URLs the extractor's session has requested

vars == <<chunk_size, overlap, min_chunk_size, use_spacy, nlp, pc, call, title,
          content, metadata, doc_chunks, sentences, i, current_chunk,
          overlap_buffer, chunk_index, chunks, closed, result, raised,
          value, memo, generator_model, encoded,
          connection, stats, database, last_connect, effect, requested>>

\* the objects of the pipeline other than the TextProcessor
services == <<generator_model, encoded, connection, stats, database,
              last_connect, effect, requested>>

\* a VectorStorage call that has not touched the database
NoEffect == [documents |-> 0, chunks |-> 0, failed |-> 0, touched |-> FALSE]

\* EmbeddingsGenerator.__init__ (generator.py line 32): no model is loaded;
\* VectorStorage.__init__ (vector_storage.py lines 41-53): no connection,
\* counters at zero; the tables are empty; the extractor's session has
\* requested nothing
InitServices ==
    /\ generator_model = "None"
    /\ encoded = "no"
    /\ connection = "None"
    /\ stats = [documents_stored |-> 0, chunks_stored |-> 0]
    /\ database = [documents |-> 0, text_chunks |-> 0]
    /\ last_connect = "none"
    /\ effect = NoEffect
    /\ requested = {}

(***************************************************************************)
(* Python str primitives                                                   *)
(***************************************************************************)
NBSP == "NBSP"
RSQUO == "RSQUO"
NDASH == "NDASH"
MDASH == "MDASH"
ABBREV == "<!ABBREV!>"

\* characters matched by \s and removed by str.strip / str.split
IsSpace(c) == c \in {" ", "\n", "\t", NBSP}

\* characters matched by \d
IsDigit(c) == c \in {"0", "1", "2", "3", "4", "5", "6", "7", "8", "9"}

\* characters matched by [,.!?;:]
IsPunct(c) == c \in {",", ".", "!", "?", ";", ":"}

\* characters matched by [.!?]
IsStop(c) == c \in {".", "!", "?"}

\* characters matched by \w
IsWordChar(c) ==
    c \in {"a", "b", "c", "d", "e", "f", "g", "h", "i", "j", "k", "l", "m",
           "n", "o", "p", "q", "r", "s", "t", "u", "v", "w", "x", "y", "z",
           "A", "B", "C", "D", "E", "F", "G", "H", "I", "J", "K", "L", "M",
           "N", "O", "P", "Q", "R", "S", "T", "U", "V", "W", "X", "Y", "Z",
           "é", "è", "à", "ç", "ù", "ê", "É", "ô", "â", "î", "û", "_",
           "0", "1", "2", "3", "4", "5", "6", "7", "8", "9"}
    \/ IsDigit(c)

\* str.lower on one character
LowerChar(c) ==
    CASE c = "A" -> "a" [] c = "B" -> "b" [] c = "C" -> "c" [] c = "D" -> "d"
      [] c = "E" -> "e" [] c = "F" -> "f" [] c = "G" -> "g" [] c = "H" -> "h"
      [] c = "I" -> "i" [] c = "J" -> "j" [] c = "K" -> "k" [] c = "L" -> "l"
      [] c = "M" -> "m" [] c = "N" -> "n" [] c = "O" -> "o" [] c = "P" -> "p"
      [] c = "Q" -> "q" [] c = "R" -> "r" [] c = "S" -> "s" [] c = "T" -> "t"
      [] c = "U" -> "u" [] c = "V" -> "v" [] c = "W" -> "w" [] c = "X" -> "x"
      [] c = "Y" -> "y" [] c = "Z" -> "z" [] c = "É" -> "é" [] OTHER -> c

Lower(s) == [k \in 1..Len(s) |-> LowerChar(s[k])]

\* s[a:b] with 1-based inclusive bounds; empty when a > b
Slice(s, a, b) == IF a > b THEN <<>> ELSE SubSeq(s, a, b)

\* index of the first non-space character at or after k, Len(s)+1 if none
RECURSIVE SkipSpace(_, _)
SkipSpace(s, k) ==
    IF k > Len(s) \/ ~IsSpace(s[k]) THEN k ELSE SkipSpace(s, k + 1)

\* index of the last non-space character at or before k, 0 if none
RECURSIVE SkipSpaceBack(_, _)
SkipSpaceBack(s, k) ==
    IF k < 1 \/ ~IsSpace(s[k]) THEN k ELSE SkipSpaceBack(s, k - 1)

\* index of the first space character at or after k, Len(s)+1 if none
RECURSIVE SkipWord(_, _)
SkipWord(s, k) ==
    IF k > Len(s) \/ IsSpace(s[k]) THEN k ELSE SkipWord(s, k + 1)

\* str.strip()
Strip(s) == Slice(s, SkipSpace(s, 1), SkipSpaceBack(s, Len(s)))

\* str.split(): the words of s
RECURSIVE SplitFrom(_, _)
SplitFrom(s, k) ==
    LET a == SkipSpace(s, k)
        b == SkipWord(s, a)
    IN  IF a > Len(s) THEN <<>>
        ELSE <<Slice(s, a, b - 1)>> \o SplitFrom(s, b)

Split(s) == SplitFrom(s, 1)

\* " ".join(words)
RECURSIVE Join(_)
Join(words) ==
    IF Len(words) = 0 THEN <<>>
    ELSE IF Len(words) = 1 THEN words[1]
    ELSE words[1] \o <<" ">> \o Join(Tail(words))

\* str.count(c) for a one-character c
Count(s, c) == Cardinality({k \in 1..Len(s) : s[k] = c})

\* needle in s
Contains(s, needle) ==
    \E k \in 0..(Len(s) - Len(needle)) :
        \A j \in 1..Len(needle) : s[k + j] = needle[j]

\* str.replace(a, b) for a one-character a
ReplaceChar(s, a, b) == [k \in 1..Len(s) |-> IF s[k] = a THEN b ELSE s[k]]

(***************************************************************************)
(* TextProcessor.clean_text                                                *)
(***************************************************************************)
NoneStr == <<"<None>">>

\* re.sub(r'\s+', ' ', text), from index k on
RECURSIVE CollapseSpace(_, _)
CollapseSpace(s, k) ==
    IF k > Len(s) THEN <<>>
    ELSE IF IsSpace(s[k]) THEN <<" ">> \o CollapseSpace(s, SkipSpace(s, k))
    ELSE <<s[k]>> \o CollapseSpace(s, k + 1)

\* re.sub(r'\n\s*\n', '\n\n', text), from index k on
RECURSIVE CollapseBlankLines(_, _)
CollapseBlankLines(s, k) ==
    IF k > Len(s) THEN <<>>
    ELSE LET e == SkipSpace(s, k + 1)
             nl == {j \in (k + 1)..(e - 1) : s[j] = "\n"}
             last == CHOOSE j \in nl : \A j2 \in nl : j2 <= j
         IN  IF s[k] = "\n" /\ nl # {}
             THEN <<"\n", "\n">> \o CollapseBlankLines(s, last + 1)
             ELSE <<s[k]>> \o CollapseBlankLines(s, k + 1)

\* the four str.replace calls on typographic characters
ReplaceTypographic(s) ==
    ReplaceChar(ReplaceChar(ReplaceChar(ReplaceChar(s, NBSP, " "),
                                        RSQUO, "'"), NDASH, "-"), MDASH, "-")

\* re.sub(r'\s+([,.!?;:])', r'\1', text), from index k on
RECURSIVE SpaceBeforePunct(_, _)
SpaceBeforePunct(s, k) ==
    IF k > Len(s) THEN <<>>
    ELSE IF IsSpace(s[k])
    THEN LET e == SkipSpace(s, k)
         IN  IF e <= Len(s) /\ IsPunct(s[e])
             THEN <<s[e]>> \o SpaceBeforePunct(s, e + 1)
             ELSE Slice(s, k, e - 1) \o SpaceBeforePunct(s, e)
    ELSE <<s[k]>> \o SpaceBeforePunct(s, k + 1)

\* re.sub(r'([,.!?;:])\s*', r'\1 ', text), from index k on
RECURSIVE SpaceAfterPunct(_, _)
SpaceAfterPunct(s, k) ==
    IF k > Len(s) THEN <<>>
    ELSE IF IsPunct(s[k])
    THEN <<s[k], " ">> \o SpaceAfterPunct(s, SkipSpace(s, k + 1))
    ELSE <<s[k]>> \o SpaceAfterPunct(s, k + 1)

clean_text(text) ==
    IF text = NoneStr \/ text = <<>> THEN <<>>
    ELSE LET t1 == CollapseSpace(text, 1)
             t2 == CollapseBlankLines(t1, 1)
             t3 == ReplaceTypographic(t2)
             t4 == SpaceBeforePunct(t3, 1)
             t5 == SpaceAfterPunct(t4, 1)
         IN  Strip(t5)

(***************************************************************************)
(* TextProcessor.smart_split_sentences                                     *)
(***************************************************************************)
\* the alternatives of (M|Mme|Dr|etc|cf|ex|art|vol|n°)
Abbreviations ==
    { <<"M">>, <<"M", "m", "e">>, <<"D", "r">>, <<"e", "t", "c">>,
      <<"c", "f">>, <<"e", "x">>, <<"a", "r", "t">>, <<"v", "o", "l">>,
      <<"n", "°">> }

\* s has abbreviation a at index k, after a word boundary, followed by '.' and \s
AbbrevAt(s, k, a) ==
    /\ k + Len(a) + 1 <= Len(s)
    /\ k = 1 \/ ~IsWordChar(s[k - 1])
    /\ \A j \in 1..Len(a) : s[k + j - 1] = a[j]
    /\ s[k + Len(a)] = "."
    /\ IsSpace(s[k + Len(a) + 1])

\* mutant of ProtectAbbrev: no abbreviation is protected
ProtectAbbrev_None(s, k) == s

\* re.sub(r'\b(M|Mme|Dr|etc|cf|ex|art|vol|n°)\.\s', r'\1<!ABBREV!> ', text)
RECURSIVE ProtectAbbrev(_, _)
ProtectAbbrev(s, k) ==
    IF k > Len(s) THEN <<>>
    ELSE LET m == {a \in Abbreviations : AbbrevAt(s, k, a)}
             a == CHOOSE a \in m : TRUE
         IN  IF m # {}
             THEN a \o <<ABBREV, " ">> \o ProtectAbbrev(s, k + Len(a) + 2)
             ELSE <<s[k]>> \o ProtectAbbrev(s, k + 1)

\* index of the first character at or after k that is not one of .!?
RECURSIVE SkipStops(_, _)
SkipStops(s, k) ==
    IF k > Len(s) \/ ~IsStop(s[k]) THEN k ELSE SkipStops(s, k + 1)

\* re.split(r'[.!?]+\s+', text): the pieces from index k on, the current
\* piece starting at index start
RECURSIVE SplitStops(_, _, _)
SplitStops(s, k, start) ==
    IF k > Len(s) THEN <<Slice(s, start, Len(s))>>
    ELSE IF IsStop(s[k])
    THEN LET e == SkipStops(s, k)
             f == SkipSpace(s, e)
         IN  IF e <= Len(s) /\ IsSpace(s[e])
             THEN <<Slice(s, start, k - 1)>> \o SplitStops(s, f, f)
             ELSE SplitStops(s, e, start)
    ELSE SplitStops(s, k + 1, start)

\* [f(s) for s in pieces if s.strip()] with f = strip after RestoreAbbrev
NonBlank(piece) == Strip(piece) # <<>>

RegexSentences(text) ==
    LET pieces == SelectSeq(SplitStops(ProtectAbbrev(text, 1), 1, 1), NonBlank)
    IN  [k \in 1..Len(pieces) |-> Strip(ReplaceChar(pieces[k], ABBREV, "."))]

\* doc.sents of a loaded model: the model is represented by the set of
\* characters after which its boundary detector ends a sentence
RECURSIVE SpacySents(_, _, _, _)
SpacySents(model, s, k, start) ==
    IF k > Len(s) THEN <<Slice(s, start, Len(s))>>
    ELSE IF s[k] \in model
    THEN <<Slice(s, start, k)>> \o SpacySents(model, s, k + 1, k + 1)
    ELSE SpacySents(model, s, k + 1, start)

SpacySentences(model, text) ==
    LET sents == SelectSeq(SpacySents(model, text, 1, 1), NonBlank)
    IN  [k \in 1..Len(sents) |-> Strip(sents[k])]

smart_split_sentences(spacy, model, text) ==
    IF spacy THEN SpacySentences(model, text) ELSE RegexSentences(text)

(***************************************************************************)
(* TextProcessor.classify_chunk_content                                    *)
(***************************************************************************)
chunk_keywords == <<
    <<"procedure", <<
        <<"d", "é", "m", "a", "r", "c", "h", "e">>,
        <<"p", "r", "o", "c", "é", "d", "u", "r", "e">>,
        <<"é", "t", "a", "p", "e">>,
        <<"c", "o", "m", "m", "e", "n", "t">>,
        <<"m", "o", "d", "e", " ", "d", "'", "e", "m", "p", "l", "o", "i">>>> >>,
    <<"definition", <<
        <<"d", "é", "f", "i", "n", "i", "t", "i", "o", "n">>,
        <<"q", "u", "'", "e", "s", "t", "-", "c", "e">>,
        <<"s", "i", "g", "n", "i", "f", "i", "e">>,
        <<"c", "o", "r", "r", "e", "s", "p", "o", "n", "d">>>> >>,
    <<"obligation", <<
        <<"o", "b", "l", "i", "g", "a", "t", "i", "o", "n">>,
        <<"d", "e", "v", "o", "i", "r">>,
        <<"d", "o", "i", "t">>,
        <<"t", "e", "n", "u", " ", "d", "e">>,
        <<"o", "b", "l", "i", "g", "a", "t", "o", "i", "r", "e">>>> >>,
    <<"droit", <<
        <<"d", "r", "o", "i", "t">>,
        <<"p", "e", "u", "t">>,
        <<"a", "u", "t", "o", "r", "i", "s", "é">>,
        <<"p", "o", "s", "s", "i", "b", "i", "l", "i", "t", "é">>,
        <<"f", "a", "c", "u", "l", "t", "é">>>> >>,
    <<"sanction", <<
        <<"s", "a", "n", "c", "t", "i", "o", "n">>,
        <<"a", "m", "e", "n", "d", "e">>,
        <<"p", "é", "n", "a", "l", "i", "t", "é">>,
        <<"i", "n", "f", "r", "a", "c", "t", "i", "o", "n">>,
        <<"c", "o", "n", "t", "r", "a", "v", "e", "n", "t", "i", "o", "n">>>> >>,
    <<"aide", <<
        <<"a", "i", "d", "e">>,
        <<"s", "u", "b", "v", "e", "n", "t", "i", "o", "n">>,
        <<"a", "l", "l", "o", "c", "a", "t", "i", "o", "n">>,
        <<"f", "i", "n", "a", "n", "c", "e", "m", "e", "n", "t">>,
        <<"s", "o", "u", "t", "i", "e", "n">>>> >> >>

\* any(keyword in text_lower for keyword in keywords)
CategoryMatches(entry, text_lower) ==
    \E k \in 1..Len(entry[2]) : Contains(text_lower, entry[2][k])

\* mutant of classify_chunk_content: only the first matching category is kept
classify_chunk_content_FirstOnly(text) ==
    LET text_lower == Lower(text)
        Hit(entry) == CategoryMatches(entry, text_lower)
        hits == SelectSeq(chunk_keywords, Hit)
    IN  IF hits # <<>> THEN <<hits[1][1]>> ELSE <<"general">>

classify_chunk_content(text) ==
    LET text_lower == Lower(text)
        Hit(entry) == CategoryMatches(entry, text_lower)
        hits == SelectSeq(chunk_keywords, Hit)
        detected_categories == [k \in 1..Len(hits) |-> hits[k][1]]
    IN  IF detected_categories # <<>> THEN detected_categories
        ELSE <<"general">>

(***************************************************************************)
(* TextChunk and the metadata dictionaries                                 *)
(***************************************************************************)
NoneMeta == [none |-> TRUE]

EmptyMeta == <<>>

\* dict.update: d with the entries of m, m winning on a shared key
Update(d, m) ==
    [k \in (DOMAIN d) \cup (DOMAIN m) |-> IF k \in DOMAIN m THEN m[k] ELSE d[k]]

\* TextChunk(...) followed by __post_init__
TextChunk(text, index, word_count, char_count, chunk_type, keywords, meta) ==
    [text |-> text,
     chunk_index |-> index,
     word_count |-> IF word_count = 0 THEN Len(Split(text)) ELSE word_count,
     char_count |-> IF char_count = 0 THEN Len(text) ELSE char_count,
     chunk_type |-> chunk_type,
     keywords |-> keywords,
     metadata |-> meta]

\* chunk_text.count('.') + chunk_text.count('!') + chunk_text.count('?')
sentence_count(text) == Count(text, ".") + Count(text, "!") + Count(text, "?")

\* bool(re.search(r'\d', chunk_text))
has_numbers(text) == \E k \in 1..Len(text) : IsDigit(text[k])

IsDateSep(c) == c \in {"/", "-"}

\* bool(re.search(r'\d{1,2}[/-]\d{1,2}[/-]\d{2,4}', chunk_text))
has_dates(text) ==
    \E k \in 1..Len(text) :
        /\ IsDigit(text[k])
        /\ k + 1 <= Len(text) /\ IsDateSep(text[k + 1])
        /\ \E n \in 1..2 :
            /\ k + 3 + n <= Len(text)
            /\ \A j \in 1..n : IsDigit(text[k + 1 + j])
            /\ IsDateSep(text[k + 2 + n])
            /\ IsDigit(text[k + 3 + n])
            /\ k + 4 + n <= Len(text) /\ IsDigit(text[k + 4 + n])

\* 'high' if len(chunk_text.split()) > 50 else 'normal'
complexity(text) == IF Len(Split(text)) > 50 THEN "high" ELSE "normal"

\* mutant of LoopMetadata: the chunks closed inside the loop are tagged too
LoopMetadata_Final(text) ==
    [sentence_count |-> sentence_count(text),
     has_numbers |-> has_numbers(text),
     has_dates |-> has_dates(text),
     complexity |-> complexity(text),
     is_final |-> TRUE]

\* the metadata literal of a chunk closed inside the loop
LoopMetadata(text) ==
    [sentence_count |-> sentence_count(text),
     has_numbers |-> has_numbers(text),
     has_dates |-> has_dates(text),
     complexity |-> complexity(text)]

\* the metadata literal of the chunk closed after the loop
FinalMetadata(text) ==
    [sentence_count |-> sentence_count(text),
     is_final |-> TRUE]

(***************************************************************************)
(* TextProcessor.create_chunks_with_overlap: the pure parts                *)
(***************************************************************************)
\* mutant of potential_chunk: a sentence that joins a non-empty buffer is lost
potential_chunk_LosesSentence(cur, sentence) ==
    IF cur # <<>> THEN cur ELSE sentence

\* current_chunk + " " + sentence if current_chunk else sentence
potential_chunk(cur, sentence) ==
    IF cur # <<>> THEN cur \o <<" ">> \o sentence ELSE sentence

\* mutant of MustClose: the buffer is closed at twice the target size
MustClose_Doubled(cur, sentence, size) ==
    Len(potential_chunk(cur, sentence)) > 2 * size /\ cur # <<>>

\* mutant of MustClose: the size test looks at the buffer, not at the buffer
\* with the new sentence
MustClose_BufferOnly(cur, sentence, size) == Len(cur) > size /\ cur # <<>>

\* len(potential_chunk) > self.chunk_size and current_chunk
MustClose(cur, sentence, size) ==
    Len(potential_chunk(cur, sentence)) > size /\ cur # <<>>

\* mutant of chunk_text: the overlap is not prepended
chunk_text_NoCarry(carry, cur) == Strip(cur)

\* (overlap_buffer + " " + current_chunk).strip()
chunk_text(carry, cur) == Strip(carry \o <<" ">> \o cur)

\* len(chunk_text) >= self.min_chunk_size
EmitClosed(text, min) == Len(text) >= min

\* mutant of EmitFinal: the floor test after the loop is left out
EmitFinal_NoFloor(cur, min) == cur # <<>>

\* current_chunk and len(current_chunk) >= self.min_chunk_size
EmitFinal(cur, min) == cur # <<>> /\ Len(cur) >= min

\* int(x / 10): true division, truncated toward zero
IntDiv10(x) == IF x >= 0 THEN x \div 10 ELSE -((-x) \div 10)

\* words[start:] of a Python list, start possibly negative
SliceFrom(words, start) ==
    LET n == Len(words)
        a == IF start < 0 THEN (IF n + start > 0 THEN n + start ELSE 0)
             ELSE (IF start < n THEN start ELSE n)
    IN  Slice(words, a + 1, n)

\* words[-int(self.overlap/10):]
overlap_words(words, ov) == SliceFrom(words, -IntDiv10(ov))

\* the overlap prepared for the next chunk
next_overlap(cur, ov) ==
    LET words == Split(cur)
    IN  IF Len(words) > 10 THEN Join(overlap_words(words, ov)) ELSE cur

\* the TextChunk built inside the loop
LoopChunk(text, index) ==
    TextChunk(text, index, Len(Split(text)), Len(text), "content",
              classify_chunk_content(text), LoopMetadata(text))

\* the TextChunk built after the loop
FinalChunk(text, index) ==
    TextChunk(text, index, Len(Split(text)), Len(text), "content",
              classify_chunk_content(text), FinalMetadata(text))

(***************************************************************************)
(* Inputs.  Sizes are in characters, as in the source; the configurations  *)
(* are small so that short sentences cross every threshold of the code.    *)
(***************************************************************************)
MaxSentences == 3

ChunkSizes == {12, 25}

Overlaps == {0, 25, 130}

MinChunkSizes == {4, 12}

\* the boundary detectors a successful spacy.load can return
NlpModels == {{".", "!", "?"}}

NoModel == {}

S_ab == <<"a", " ", "b">>

S_af == <<"a", " ", "b", " ", "c", " ", "d", " ", "e", " ", "f">>

S_date == <<"d", "o", "i", "t", " ", "1", "/", "2", "/", "3", "4">>

S_al == <<"a", " ", "b", " ", "c", " ", "d", " ", "e", " ", "f", " ", "g", " ",
          "h", " ", "i", " ", "j", " ", "k", " ", "l">>

\* sentences as smart_split_sentences returns them: stripped, not empty
SentencePool == {S_ab, S_af, S_date, S_al}

SentenceLists == UNION {[1..n -> SentencePool] : n \in 0..MaxSentences}

Titles ==
    { NoneStr,
      <<>>,
      <<"c", "o", "u", "r", "t">>,
      <<"a", "b", "c", "d", "e", "f", "g", "h", "i", "j">>,
      <<"a", "b", "c", "d", "e", "f", "g", "h", "i", "j", "k">>,
      <<" ", "L", "e", " ", "d", "r", "o", "i", "t", " ", "d", "u", " ",
        "t", "r", "a", "v", "a", "i", "l", " ">>,
      <<" ", "c", "o", "u", "r", "t", " ", " ", " ", " ", " ">> }

Contents ==
    { NoneStr,
      <<>>,
      <<"a", " ", " ", "b", " ", ".">>,
      <<".", ".", " ", ".", ".">>,
      <<"a", " ", "b", " ", "c", " ", "d", " ", "e", " ", "f", ".", " ", " ",
        "d", "o", "i", "t", " ", "1", "/", "2", "/", "3", "4", " ", ".",
        "a", " ", "b", " ", "c", " ", "d", " ", "e", " ", "f", " ", "g", " ",
        "h", " ", "i", " ", "j", " ", "k", " ", "l", "?", " ", "a", " ", "b">>,
      <<"M", ".", " ", "a", " ", "b", " ", "c", " ", "d", " ", "e", " ", "f",
        "!", " ", "a", " ", "b", " ", "c", " ", "d", " ", "e", " ", "f",
        "\n", "\n", "D", "r", ".", " ", "a", " ", "b">>,
      <<"a", " ", "b", " ", "c", " ", "d", " ", "e", " ", "f", " ", "g", " ",
        "h", " ", "i", " ", "j", " ", "k", " ", "l", ".", " ", "a", " ", "b",
        ".", " ", "a", " ", "b", " ", "c", " ", "d", " ", "e", " ", "f", " ",
        "g", " ", "h", " ", "i", " ", "j", " ", "k", " ", "l">> }

\* texts given to classify_chunk_content directly: no keyword, an upper-case
\* keyword, a keyword inside a longer word, two keywords of one category,
\* keywords of two categories, the sentinel's own name
ChunkTexts ==
    { <<>>,
      <<"r", "i", "e", "n", " ", "i", "c", "i">>,
      <<"L", "a", " ", "D", "É", "M", "A", "R", "C", "H", "E">>,
      <<"i", "l", " ", "d", "o", "i", "t", " ", "p", "a", "y", "e", "r",
        " ", "u", "n", "e", " ", "a", "m", "e", "n", "d", "e">>,
      <<"a", "d", "r", "o", "i", "t", "e", "m", "e", "n", "t">>,
      <<"a", "i", "d", "e", " ", "e", "t", " ", "s", "o", "u", "t", "i",
        "e", "n">>,
      <<"O", "n", " ", "p", "e", "u", "t", " ", "D", "E", "V", "O", "I", "R">>,
      <<"g", "e", "n", "e", "r", "a", "l">> }

\* texts given to clean_text directly: spaces around a mark, a final mark, a
\* run of marks, a mark between digits, paragraphs and lines
CleanTexts ==
    { <<>>,
      <<"a", " ", ",", " ", "b">>,
      <<"x", " ", ",", "y">>,
      <<"f", "i", "n", ".">>,
      <<"a", ".", ".", "b">>,
      <<"1", ".", "5">>,
      <<"q", "u", "o", "i", " ", "?", "!">>,
      <<"p", "1", "\n", "\n", "p", "2">>,
      <<"p", "1", "\n", " ", "\n", "\n", "\n", "p", "2">>,
      <<"l", "1", "\n", "l", "2">> }

\* texts given to smart_split_sentences directly: each abbreviation before
\* whitespace, an abbreviation that ends a word or the text, a newline after
\* an abbreviation, the sentinel itself, plain boundaries
SplitTexts ==
    { <<"M", ".", " ", "D", "u", "p", "o", "n", "t", " ", "v", "i", "e",
        "n", "t", ".", " ", "M", "m", "e", ".", " ", "D", "u", "r", "a",
        "n", "d", " ", "a", "u", "s", "s", "i">>,
      <<"c", "f", ".", " ", "a", "r", "t", ".", " ", "5", " ", "d", "u",
        " ", "v", "o", "l", ".", " ", "2", "!", " ", "D", "r", ".", " ",
        "N", "ô">>,
      <<"l", "e", " ", "n", "°", ".", " ", "7", ",", " ", "e", "t", "c",
        ".", " ", "P", "u", "i", "s", " ", "e", "x", ".", " ", "u", "n">>,
      <<"s", "u", "r", "v", "o", "l", ".", " ", "P", "u", "i", "s">>,
      <<"M", ".", "\n", "D", "u", "p", "o", "n", "t">>,
      <<"v", "o", "i", "r", " ", ABBREV, " ", "i", "c", "i">>,
      <<"U", "n", ".", " ", "D", "e", "u", "x", "?", " ", "T", "r", "o",
        "i", "s">>,
      <<" ", "!", "?", " ", "x", " ">>,
      <<"e", "t", "c", ".", " ">>,
      <<"a", " ", "e", "t", "c", ".">> }

\* longest text of the exhaustive enumeration
MaxTextLen == 5

SplitAlphabet == {"M", "x", ".", "!", " "}

\* every text of at most MaxTextLen characters over the alphabet
BoundedTexts == UNION {[1..n -> SplitAlphabet] : n \in 0..MaxTextLen}

\* a caller mapping that uses every key the engine sets
CollidingMeta ==
    [sentence_count |-> -1, has_numbers |-> TRUE, has_dates |-> TRUE,
     complexity |-> "caller", is_final |-> FALSE, is_title |-> FALSE,
     source_url |-> "u"]

Metas == {NoneMeta, EmptyMeta, [source_url |-> "u", domain |-> "rh"], CollidingMeta}

(***************************************************************************)
(* TextProcessor.__init__                                                  *)
(***************************************************************************)
\* mutant of Init: a failed load of the model leaves use_spacy set
Init_KeepsSpacy ==
    /\ chunk_size \in ChunkSizes
    /\ overlap \in Overlaps
    /\ min_chunk_size \in MinChunkSizes
    /\ \/ nlp \in NlpModels /\ use_spacy = TRUE
       \/ nlp = NoModel /\ use_spacy = TRUE
    /\ pc = "idle"
    /\ call = "none"
    /\ title = NoneStr
    /\ content = NoneStr
    /\ metadata = NoneMeta
    /\ doc_chunks = <<>>
    /\ sentences = <<>>
    /\ i = 0
    /\ current_chunk = <<>>
    /\ overlap_buffer = <<>>
    /\ chunk_index = 0
    /\ chunks = <<>>
    /\ closed = <<>>
    /\ result = <<>>
    /\ raised = "none"
    /\ value = <<>>
    /\ memo = <<>>
    /\ InitServices

\* lines 45-82; spacy.load succeeds or raises OSError (lines 74-80)
Init ==
    /\ chunk_size \in ChunkSizes
    /\ overlap \in Overlaps
    /\ min_chunk_size \in MinChunkSizes
    /\ \/ nlp \in NlpModels /\ use_spacy = TRUE
       \/ nlp = NoModel /\ use_spacy = FALSE
    /\ pc = "idle"
    /\ call = "none"
    /\ title = NoneStr
    /\ content = NoneStr
    /\ metadata = NoneMeta
    /\ doc_chunks = <<>>
    /\ sentences = <<>>
    /\ i = 0
    /\ current_chunk = <<>>
    /\ overlap_buffer = <<>>
    /\ chunk_index = 0
    /\ chunks = <<>>
    /\ closed = <<>>
    /\ result = <<>>
    /\ raised = "none"
    /\ value = <<>>
    /\ memo = <<>>
    /\ InitServices

config == <<chunk_size, overlap, min_chunk_size, use_spacy, nlp>>

(***************************************************************************)
(* TextProcessor.create_chunks_with_overlap                                *)
(***************************************************************************)
\* mutant of EnterLoop: overlap_buffer keeps the value the previous call
\* left in it
EnterLoop_StaleCarry(sents) ==
    /\ sentences' = sents
    /\ i' = 0
    /\ current_chunk' = <<>>
    /\ overlap_buffer' = overlap_buffer
    /\ chunk_index' = 0
    /\ chunks' = <<>>
    /\ closed' = <<>>
    /\ pc' = "loop"

\* lines 210-213: the locals before the loop
EnterLoop(sents) ==
    /\ sentences' = sents
    /\ i' = 0
    /\ current_chunk' = <<>>
    /\ overlap_buffer' = <<>>
    /\ chunk_index' = 0
    /\ chunks' = <<>>
    /\ closed' = <<>>
    /\ pc' = "loop"

\* a direct call of the method
create_chunks_with_overlap(sents) ==
    /\ pc = "idle"
    /\ call' = "create_chunks_with_overlap"
    /\ title' = NoneStr
    /\ content' = NoneStr
    /\ metadata' = NoneMeta
    /\ doc_chunks' = <<>>
    /\ result' = <<>>
    /\ raised' = "none"
    /\ EnterLoop(sents)
    /\ UNCHANGED <<services, config, memo, value>>

\* index of the first sentence of the buffer being accumulated
BufferStart == IF closed = <<>> THEN 1 ELSE closed[Len(closed)].last + 1

\* one iteration that closes the current chunk (lines 220-255)
LoopClose ==
    /\ pc = "loop"
    /\ i < Len(sentences)
    /\ MustClose(current_chunk, sentences[i + 1], chunk_size)
    /\ LET text == chunk_text(overlap_buffer, current_chunk)
           emit == EmitClosed(text, min_chunk_size)
       IN  /\ chunks' = IF emit THEN Append(chunks, LoopChunk(text, chunk_index))
                        ELSE chunks
           /\ chunk_index' = IF emit THEN chunk_index + 1 ELSE chunk_index
           /\ closed' = Append(closed,
                  [first |-> BufferStart, last |-> i, buffer |-> current_chunk,
                   carry |-> overlap_buffer, text |-> text, emitted |-> emit,
                   final |-> FALSE,
                   next_carry |-> next_overlap(current_chunk, overlap)])
    /\ overlap_buffer' = next_overlap(current_chunk, overlap)
    /\ current_chunk' = sentences[i + 1]
    /\ i' = i + 1
    /\ UNCHANGED <<memo, value, services, config, pc, call, title, content, metadata, doc_chunks,
                   sentences, result, raised>>

\* one iteration that absorbs the sentence (lines 256-257)
LoopAbsorb ==
    /\ pc = "loop"
    /\ i < Len(sentences)
    /\ ~MustClose(current_chunk, sentences[i + 1], chunk_size)
    /\ current_chunk' = potential_chunk(current_chunk, sentences[i + 1])
    /\ i' = i + 1
    /\ UNCHANGED <<memo, value, services, config, pc, call, title, content, metadata, doc_chunks,
                   sentences, overlap_buffer, chunk_index, chunks, closed,
                   result, raised>>

\* the last chunk and the return (lines 259-279)
CloseFinal ==
    /\ pc = "loop"
    /\ i = Len(sentences)
    /\ LET text == chunk_text(overlap_buffer, current_chunk)
           emit == EmitFinal(current_chunk, min_chunk_size)
           out == IF emit THEN Append(chunks, FinalChunk(text, chunk_index))
                  ELSE chunks
       IN  /\ chunks' = out
           /\ closed' = IF current_chunk = <<>> THEN closed
                        ELSE Append(closed,
                  [first |-> BufferStart, last |-> i, buffer |-> current_chunk,
                   carry |-> overlap_buffer, text |-> text, emitted |-> emit,
                   final |-> TRUE, next_carry |-> overlap_buffer])
           /\ IF call = "process_document"
              THEN pc' = "merge" /\ result' = result
              ELSE pc' = "done" /\ result' = out
    /\ UNCHANGED <<memo, value, services, config, call, title, content, metadata, doc_chunks,
                   sentences, i, current_chunk, overlap_buffer, chunk_index,
                   raised>>

\* mutant of HasTitleChunk: the length of the title as given is tested
HasTitleChunk_NoStrip(t) == t # <<>> /\ Len(t) > 10

(***************************************************************************)
(* TextProcessor.process_document                                          *)
(***************************************************************************)
\* title and len(title.strip()) > 10
HasTitleChunk(t) == t # <<>> /\ Len(Strip(t)) > 10

\* the title chunk (lines 310-318)
TitleChunk(t, meta) ==
    TextChunk(Strip(t), 0, Len(Split(t)), Len(t), "title", <<"titre">>,
              Update(meta, [is_title |-> TRUE]))

\* mutant of MergeChunk: the index is not adjusted after the title
MergeChunk_NoShift(chunk, meta, shift) ==
    [chunk EXCEPT !.metadata = Update(chunk.metadata, meta)]

\* lines 332-334 on one content chunk
MergeChunk(chunk, meta, shift) ==
    [chunk EXCEPT !.metadata = Update(chunk.metadata, meta),
                  !.chunk_index = chunk.chunk_index + shift]

\* mutant of TooShort: only an empty content is too short
TooShort_OnlyEmpty(clean_content, min) == Len(clean_content) = 0

\* len(clean_content) < self.min_chunk_size
TooShort(clean_content, min) == Len(clean_content) < min

\* mutant of Extend: the content chunks are put before the title chunk
Extend_TitleLast(title_chunks, content_chunks) == content_chunks \o title_chunks

\* chunks.extend(content_chunks)
Extend(title_chunks, content_chunks) == title_chunks \o content_chunks

\* metadata = {} when it is None (lines 295-296)
MetaOrEmpty(meta) == IF meta = NoneMeta THEN EmptyMeta ELSE meta

\* the call up to the content chunking (lines 295-329)
process_document(t, c, m) ==
    /\ pc = "idle"
    /\ call' = "process_document"
    /\ title' = t
    /\ content' = c
    /\ metadata' = m
    /\ UNCHANGED <<services, config, memo, value>>
    /\ LET meta == MetaOrEmpty(m)
           clean_content == clean_text(c)
           title_chunks == IF HasTitleChunk(t) THEN <<TitleChunk(t, meta)>>
                           ELSE <<>>
           sents == smart_split_sentences(use_spacy, nlp, clean_content)
           Return(chunk_list, exc) ==
               /\ result' = chunk_list
               /\ raised' = exc
               /\ pc' = "done"
               /\ UNCHANGED <<sentences, i, current_chunk, overlap_buffer,
                              chunk_index, chunks, closed>>
       IN  IF t = NoneStr
           THEN \* title[:50] on None (line 298)
                doc_chunks' = <<>> /\ Return(<<>>, "TypeError")
           ELSE IF TooShort(clean_content, min_chunk_size)
           THEN doc_chunks' = <<>> /\ Return(<<>>, "none")
           ELSE IF sents = <<>>
           THEN doc_chunks' = title_chunks /\ Return(title_chunks, "none")
           ELSE /\ doc_chunks' = title_chunks
                /\ result' = <<>>
                /\ raised' = "none"
                /\ EnterLoop(sents)

\* mutant of MergeAndReturn: the update also writes into the caller's mapping
MergeAndReturn_UpdatesCaller ==
    /\ pc = "merge"
    /\ LET meta == MetaOrEmpty(metadata)
           content_chunks ==
               [k \in 1..Len(chunks) |-> MergeChunk(chunks[k], meta, Len(doc_chunks))]
       IN  /\ chunks' = content_chunks
           /\ result' = Extend(doc_chunks, content_chunks)
           /\ metadata' = IF chunks = <<>> THEN metadata
                          ELSE Update(meta, chunks[1].metadata)
    /\ pc' = "done"
    /\ UNCHANGED <<memo, value, services, config, call, title, content, doc_chunks,
                   sentences, i, current_chunk, overlap_buffer, chunk_index,
                   closed, raised>>

\* the merge of the content chunks and the return (lines 331-341)
MergeAndReturn ==
    /\ pc = "merge"
    /\ LET meta == MetaOrEmpty(metadata)
           content_chunks ==
               [k \in 1..Len(chunks) |-> MergeChunk(chunks[k], meta, Len(doc_chunks))]
       IN  /\ chunks' = content_chunks
           /\ result' = Extend(doc_chunks, content_chunks)
    /\ pc' = "done"
    /\ UNCHANGED <<memo, value, services, config, call, title, content, metadata, doc_chunks,
                   sentences, i, current_chunk, overlap_buffer, chunk_index,
                   closed, raised>>

\* a direct call of classify_chunk_content (lines 176-195); value holds the
\* returned list of categories
classify_chunk_content_call(text) ==
    /\ pc = "idle"
    /\ call' = "classify_chunk_content"
    /\ content' = text
    /\ value' = classify_chunk_content(text)
    /\ result' = <<>>
    /\ raised' = "none"
    /\ pc' = "done"
    /\ UNCHANGED <<memo, services, config, title, metadata, doc_chunks, sentences, i,
                   current_chunk, overlap_buffer, chunk_index, chunks, closed>>

\* a direct call of clean_text (lines 84-113); value holds the returned string
clean_text_call(text) ==
    /\ pc = "idle"
    /\ call' = "clean_text"
    /\ content' = text
    /\ value' = clean_text(text)
    /\ result' = <<>>
    /\ raised' = "none"
    /\ pc' = "done"
    /\ UNCHANGED <<memo, services, config, title, metadata, doc_chunks, sentences, i,
                   current_chunk, overlap_buffer, chunk_index, chunks, closed>>

(***************************************************************************)
(* BaseExtractor.classify_domain, ServicePublicExtractor.classify_fiche_domain *)
(***************************************************************************)
\* the local table keywords of classify_domain, in definition order
domain_keywords == <<
    <<"juridique", <<
        <<"d", "r", "o", "i", "t">>,
        <<"l", "o", "i">>,
        <<"c", "o", "d", "e">>,
        <<"j", "u", "r", "i", "d", "i", "q", "u", "e">>,
        <<"t", "r", "i", "b", "u", "n", "a", "l">>,
        <<"j", "u", "s", "t", "i", "c", "e">>,
        <<"c", "o", "n", "t", "r", "a", "t">>,
        <<"r", "e", "s", "p", "o", "n", "s", "a", "b", "i", "l", "i", "t",
          "é">>>> >>,
    <<"rh", <<
        <<"s", "a", "l", "a", "r", "i", "é">>,
        <<"e", "m", "p", "l", "o", "i">>,
        <<"r", "e", "c", "r", "u", "t", "e", "m", "e", "n", "t">>,
        <<"f", "o", "r", "m", "a", "t", "i", "o", "n">>,
        <<"r", "h">>,
        <<"r", "e", "s", "s", "o", "u", "r", "c", "e", "s", " ", "h", "u",
          "m", "a", "i", "n", "e", "s">>,
        <<"t", "r", "a", "v", "a", "i", "l">>>> >>,
    <<"economique", <<
        <<"é", "c", "o", "n", "o", "m", "i", "e">>,
        <<"f", "i", "n", "a", "n", "c", "e">>,
        <<"a", "i", "d", "e">>,
        <<"s", "u", "b", "v", "e", "n", "t", "i", "o", "n">>,
        <<"c", "r", "é", "d", "i", "t">>,
        <<"i", "m", "p", "ô", "t">>,
        <<"f", "i", "s", "c", "a", "l">>>> >> >>

\* self.classification_keywords, in definition order: subcategory, keywords,
\* domain
classification_keywords == <<
    <<"creation_entreprise", <<
        <<"c", "r", "é", "a", "t", "i", "o", "n">>,
        <<"c", "r", "é", "e", "r">>,
        <<"S", "A", "R", "L">>,
        <<"S", "A", "S">>,
        <<"m", "i", "c", "r", "o", "-", "e", "n", "t", "r", "e", "p", "r",
          "i", "s", "e">>,
        <<"a", "u", "t", "o", "-", "e", "n", "t", "r", "e", "p", "r", "e",
          "n", "e", "u", "r">>,
        <<"s", "o", "c", "i", "é", "t", "é">>,
        <<"s", "t", "a", "t", "u", "t">>,
        <<"i", "m", "m", "a", "t", "r", "i", "c", "u", "l", "a", "t", "i",
          "o", "n">>,
        <<"c", "a", "p", "i", "t", "a", "l">>,
        <<"g", "é", "r", "a", "n", "t">>>>,
      "juridique">>,
    <<"fiscal_entreprise", <<
        <<"T", "V", "A">>,
        <<"i", "m", "p", "ô", "t">>,
        <<"f", "i", "s", "c", "a", "l">>,
        <<"d", "é", "c", "l", "a", "r", "a", "t", "i", "o", "n">>,
        <<"b", "é", "n", "é", "f", "i", "c", "e">>,
        <<"d", "é", "d", "u", "c", "t", "i", "o", "n">>,
        <<"c", "r", "é", "d", "i", "t", " ", "d", "'", "i", "m", "p", "ô",
          "t">>,
        <<"c", "o", "m", "p", "t", "a", "b", "i", "l", "i", "t", "é">>,
        <<"b", "i", "l", "a", "n">>>>,
      "economique">>,
    <<"droit_travail", <<
        <<"s", "a", "l", "a", "r", "i", "é">>,
        <<"c", "o", "n", "t", "r", "a", "t", " ", "d", "e", " ", "t", "r",
          "a", "v", "a", "i", "l">>,
        <<"l", "i", "c", "e", "n", "c", "i", "e", "m", "e", "n", "t">>,
        <<"p", "r", "é", "a", "v", "i", "s">>,
        <<"i", "n", "d", "e", "m", "n", "i", "t", "é">>,
        <<"t", "e", "m", "p", "s", " ", "d", "e", " ", "t", "r", "a", "v",
          "a", "i", "l">>,
        <<"c", "o", "n", "g", "é", "s">>,
        <<"f", "o", "r", "m", "a", "t", "i", "o", "n", " ", "p", "r", "o",
          "f", "e", "s", "s", "i", "o", "n", "n", "e", "l", "l", "e">>>>,
      "rh">>,
    <<"social_paie", <<
        <<"c", "o", "t", "i", "s", "a", "t", "i", "o", "n", "s">>,
        <<"U", "R", "S", "S", "A", "F">>,
        <<"c", "h", "a", "r", "g", "e", "s", " ", "s", "o", "c", "i", "a",
          "l", "e", "s">>,
        <<"b", "u", "l", "l", "e", "t", "i", "n", " ", "d", "e", " ", "p",
          "a", "i", "e">>,
        <<"s", "é", "c", "u", "r", "i", "t", "é", " ", "s", "o", "c", "i",
          "a", "l", "e">>,
        <<"r", "e", "t", "r", "a", "i", "t", "e">>,
        <<"c", "h", "ô", "m", "a", "g", "e">>>>,
      "rh">>,
    <<"aides_publiques", <<
        <<"a", "i", "d", "e">>,
        <<"s", "u", "b", "v", "e", "n", "t", "i", "o", "n">>,
        <<"c", "r", "é", "d", "i", "t">>,
        <<"f", "i", "n", "a", "n", "c", "e", "m", "e", "n", "t">>,
        <<"d", "i", "s", "p", "o", "s", "i", "t", "i", "f">>,
        <<"a", "c", "c", "o", "m", "p", "a", "g", "n", "e", "m", "e", "n",
          "t">>,
        <<"s", "o", "u", "t", "i", "e", "n">>>>,
      "economique">> >>

\* content[:500]
DomainWindow == 500

\* content[:1000]
FicheWindow == 1000

\* s[:n]
Prefix(s, n) == IF Len(s) <= n THEN s ELSE SubSeq(s, 1, n)

\* (title + " " + content[:n]).lower()
text_to_analyze(t, c, n) == Lower(t \o <<" ">> \o Prefix(c, n))

\* sum(1 for word in words if word in text_to_analyze)
Score(words, text) ==
    Cardinality({k \in 1..Len(words) : Contains(text, words[k])})

\* sum(1 for keyword in keywords if keyword.lower() in text_to_analyze)
ScoreLower(words, text) ==
    Cardinality({k \in 1..Len(words) : Contains(text, Lower(words[k]))})

\* mutant of FirstMax: among equal scores the last one wins
FirstMax_Last(scores, keys) ==
    CHOOSE k \in keys :
        /\ \A j \in keys : scores[j] <= scores[k]
        /\ \A j \in keys : j > k => scores[j] < scores[k]

\* max(d, key=...): the first key, in insertion order, whose score is the
\* highest; keys are the table positions present in the dict
FirstMax(scores, keys) ==
    CHOOSE k \in keys :
        /\ \A j \in keys : scores[j] <= scores[k]
        /\ \A j \in keys : j < k => scores[j] < scores[k]

\* mutant of AnyMatch: one matching keyword is not enough
AnyMatch_AboveOne(scores) == \E k \in 1..Len(scores) : scores[k] > 1

\* max(domain_scores.values()) > 0
AnyMatch(scores) == \E k \in 1..Len(scores) : scores[k] > 0

classify_domain(t, c) ==
    LET text == text_to_analyze(t, c, DomainWindow)
        domain_scores ==
            [k \in 1..Len(domain_keywords) |-> Score(domain_keywords[k][2], text)]
    IN  IF AnyMatch(domain_scores)
        THEN domain_keywords[FirstMax(domain_scores, 1..Len(domain_keywords))][1]
        ELSE "autre"

\* the returned pair (main_domain, subcategory)
classify_fiche_domain(t, c) ==
    LET text == text_to_analyze(t, c, FicheWindow)
        score == [k \in 1..Len(classification_keywords) |->
                     ScoreLower(classification_keywords[k][2], text)]
        subcategory_scores == {k \in 1..Len(classification_keywords) : score[k] > 0}
    IN  IF subcategory_scores # {}
        THEN LET best_subcategory == FirstMax(score, subcategory_scores)
             IN  <<classification_keywords[best_subcategory][3],
                   classification_keywords[best_subcategory][1]>>
        ELSE <<"juridique", "general">>

\* n characters that belong to no keyword
Filler(n) == [k \in 1..n |-> "x"]

\* (title, content) pairs given to the two classifiers: no keyword; the
\* example of the specification; equal scores; a keyword inside another word;
\* the best category defined last; upper-case keywords; a keyword cut by the
\* end of the window, for each window
Documents ==
    { <<<<>>, <<>>>>,
      <<<<"B", "o", "n", "j", "o", "u", "r">>, <<"r", "i", "e", "n", " ", "i", "c", "i">>>>,
      <<<<>>, <<"l", "e", " ", "s", "a", "l", "a", "r", "i", "é", " ", "a", " ",
          "d", "r", "o", "i", "t", " ", "à", " ", "u", "n", "e", " ", "f",
          "o", "r", "m", "a", "t", "i", "o", "n", " ", "p", "r", "o", "f",
          "e", "s", "s", "i", "o", "n", "n", "e", "l", "l", "e", " ", "e",
          "t", " ", "d", "e", "s", " ", "c", "o", "n", "g", "é", "s">>>>,
      <<<<"D", "r", "o", "i", "t">>, <<"f", "i", "n", "a", "n", "c", "e", " ", "e", "t", " ", "i", "m",
          "p", "ô", "t", ",", " ", "a", "i", "d", "e", " ", "à", " ", "l",
          "a", " ", "c", "r", "é", "a", "t", "i", "o", "n">>>>,
      <<<<"e", "m", "p", "l", "o", "i">>, <<>>>>,
      <<<<"L", "e", " ", "b", "i", "l", "a", "n">>, <<"a", "i", "d", "e", ",", " ", "s", "u", "b", "v", "e", "n", "t",
          "i", "o", "n", " ", "e", "t", " ", "c", "r", "é", "d", "i", "t">>>>,
      <<<<"S", "A", "R", "L", " ", "o", "u", " ", "S", "A", "S">>, <<"c", "o", "t", "i", "s", "a", "t", "i", "o", "n", "s", " ", "U",
          "R", "S", "S", "A", "F", " ", "e", "t", " ", "T", "V", "A">>>>,
      <<<<>>, Filler(DomainWindow - 3) \o <<"a", "i", "d", "e", " ", "l", "o", "i">>>>,
      <<<<>>, Filler(FicheWindow - 3) \o <<"a", "i", "d", "e", " ", "l", "o", "i">>>> }

\* a direct call of classify_domain; value holds the returned label
classify_domain_call(t, c) ==
    /\ pc = "idle"
    /\ call' = "classify_domain"
    /\ title' = t
    /\ content' = c
    /\ value' = <<classify_domain(t, c)>>
    /\ result' = <<>>
    /\ raised' = "none"
    /\ pc' = "done"
    /\ UNCHANGED <<memo, services, config, metadata, doc_chunks, sentences, i,
                   current_chunk, overlap_buffer, chunk_index, chunks, closed>>

\* a direct call of classify_fiche_domain; value holds the returned pair
classify_fiche_domain_call(t, c) ==
    /\ pc = "idle"
    /\ call' = "classify_fiche_domain"
    /\ title' = t
    /\ content' = c
    /\ value' = classify_fiche_domain(t, c)
    /\ result' = <<>>
    /\ raised' = "none"
    /\ pc' = "done"
    /\ UNCHANGED <<memo, services, config, metadata, doc_chunks, sentences, i,
                   current_chunk, overlap_buffer, chunk_index, chunks, closed>>

\* a direct call of smart_split_sentences (lines 151-174); value holds the
\* returned list of sentences
smart_split_sentences_call(text) ==
    /\ pc = "idle"
    /\ call' = "smart_split_sentences"
    /\ content' = text
    /\ value' = smart_split_sentences(use_spacy, nlp, text)
    /\ result' = <<>>
    /\ raised' = "none"
    /\ pc' = "done"
    /\ UNCHANGED <<memo, services, config, title, metadata, doc_chunks, sentences, i,
                   current_chunk, overlap_buffer, chunk_index, chunks, closed>>

\* the caller is done with the returned list; the processor is ready for
\* its next call
Discard ==
    /\ pc = "done"
    /\ pc' = "idle"
    /\ call' = "none"
    /\ title' = NoneStr
    /\ content' = NoneStr
    /\ metadata' = NoneMeta
    /\ doc_chunks' = <<>>
    /\ sentences' = <<>>
    /\ i' = 0
    /\ current_chunk' = <<>>
    /\ overlap_buffer' = <<>>
    /\ chunk_index' = 0
    /\ chunks' = <<>>
    /\ closed' = <<>>
    /\ result' = <<>>
    /\ raised' = "none"
    /\ value' = <<>>
    /\ UNCHANGED <<services, config, memo>>

Next ==
    \/ \E t \in Titles, c \in Contents, m \in Metas : process_document(t, c, m)
    \/ \E sents \in SentenceLists : create_chunks_with_overlap(sents)
    \/ \E text \in ChunkTexts : classify_chunk_content_call(text)
    \/ \E text \in CleanTexts : clean_text_call(text)
    \/ \E text \in SplitTexts : smart_split_sentences_call(text)
    \/ \E d \in Documents : classify_domain_call(d[1], d[2])
    \/ \E d \in Documents : classify_fiche_domain_call(d[1], d[2])
    \/ LoopClose
    \/ LoopAbsorb
    \/ CloseFinal
    \/ MergeAndReturn
    \/ Discard

Spec == Init /\ [][Next]_vars

(***************************************************************************)
(* Repeated calls on one TextProcessor and one extractor                   *)
(***************************************************************************)
\* the arguments of the call that has just returned are those of the
\* remembered call
SameInput(m) ==
    /\ m.call = call
    /\ CASE call = "process_document" ->
                m.title = title /\ m.content = content /\ m.metadata = metadata
         [] call = "classify_chunk_content" -> m.content = content
         [] OTHER -> m.title = title /\ m.content = content

\* the call has returned; it is remembered, or an earlier remembered call is
\* kept. Nothing is reset: the next call finds what this one left behind.
Remember ==
    /\ pc = "done"
    /\ pc' = "idle"
    /\ LET now == [call |-> call, title |-> title, content |-> content,
                   metadata |-> metadata, result |-> result, raised |-> raised,
                   value |-> value, between |-> FALSE]
       IN  \/ memo' = now
           \/ /\ memo # <<>>
              /\ memo' = [memo EXCEPT !.between = @ \/ ~SameInput(memo)]
    /\ UNCHANGED <<services, config, call, title, content, metadata, doc_chunks,
                   sentences, i, current_chunk, overlap_buffer, chunk_index,
                   chunks, closed, result, raised, value>>

RepeatTitles == {t \in Titles : Len(t) > 11}

RepeatContents == {c \in Contents : Len(c) > 50}

RepeatMetas == {CollidingMeta}

RepeatTexts == {text \in ChunkTexts : Len(text) = 14}

RepeatDocuments == {d \in Documents : Len(d[1]) = 6}

\* one chunk size, one floor and one overlap, with both segmenters
InitRepeat == Init /\ chunk_size = 12 /\ min_chunk_size = 4 /\ overlap = 25

NextRepeat ==
    \/ \E t \in RepeatTitles, c \in RepeatContents, m \in RepeatMetas :
           process_document(t, c, m)
    \/ \E text \in RepeatTexts : classify_chunk_content_call(text)
    \/ \E d \in RepeatDocuments : classify_domain_call(d[1], d[2])
    \/ \E d \in RepeatDocuments : classify_fiche_domain_call(d[1], d[2])
    \/ LoopClose
    \/ LoopAbsorb
    \/ CloseFinal
    \/ MergeAndReturn
    \/ Remember

SpecRepeat == InitRepeat /\ [][NextRepeat]_vars

(***************************************************************************)
(* smart_split_sentences on every short text                               *)
(***************************************************************************)
NextSplit ==
    \/ \E text \in BoundedTexts \cup SplitTexts : smart_split_sentences_call(text)
    \/ Discard

\* one configuration with each segmenter
SpecSplit == InitRepeat /\ [][NextSplit]_vars

(***************************************************************************)
(* EmbeddingsGenerator (src/embeddings/generator.py)                       *)
(***************************************************************************)
\* Python None in a list of embeddings
NoneEmbedding == <<>>

\* preprocess_text_for_embedding line 118
max_length == 512

\* str.rfind(' ') as a count of the characters before the last space, -1
\* when there is none
RFindSpace(s) ==
    LET spaces == {k \in 1..Len(s) : s[k] = " "}
    IN  IF spaces = {} THEN -1
        ELSE (CHOOSE k \in spaces : \A j \in spaces : j <= k) - 1

\* lines 111-128
preprocess_text_for_embedding(text) ==
    IF text = NoneStr \/ text = <<>> THEN <<>>
    ELSE LET cleaned == Strip(text)
         IN  IF Len(cleaned) > max_length
             THEN LET cut == SubSeq(cleaned, 1, max_length)
                      last_space == RFindSpace(cut)
                  IN  IF last_space * 10 > max_length * 8
                      THEN SubSeq(cut, 1, last_space)
                      ELSE cut
             ELSE cleaned

\* line 204: the text is kept for the batch
ValidText(text) == text # NoneStr /\ text # <<>> /\ Len(Strip(text)) >= 3

\* model.encode on one row of the batch: the vector is a function of the
\* text that was submitted
Encode(cleaned) == <<"embedding", cleaned>>

\* lines 203-206: the positions of the texts that are kept
valid_indices(texts) ==
    LET Kept(k) == ValidText(texts[k])
    IN  SelectSeq([k \in 1..Len(texts) |-> k], Kept)

\* lines 203-206
clean_texts(texts) ==
    LET valid == valid_indices(texts)
    IN  [k \in 1..Len(valid) |-> preprocess_text_for_embedding(texts[valid[k]])]

\* mutant of result_embeddings: the vectors fill the first positions
result_embeddings_Front(n, valid, embeddings) ==
    [p \in 1..n |-> IF p <= Len(embeddings) THEN embeddings[p] ELSE NoneEmbedding]

\* lines 221-223
result_embeddings(n, valid, embeddings) ==
    [p \in 1..n |->
        IF \E k \in 1..Len(valid) : valid[k] = p
        THEN embeddings[CHOOSE k \in 1..Len(valid) : valid[k] = p]
        ELSE NoneEmbedding]

Nones(n) == [p \in 1..n |-> NoneEmbedding]

\* lines 190-243; encode_ok: model.encode returns, otherwise it raises
generate_batch_embeddings(loaded, texts, encode_ok) ==
    IF ~loaded THEN Nones(Len(texts))
    ELSE IF texts = <<>> THEN <<>>
    ELSE IF clean_texts(texts) = <<>> THEN Nones(Len(texts))
    ELSE IF ~encode_ok THEN Nones(Len(texts))
    ELSE LET clean == clean_texts(texts)
             embeddings == [k \in 1..Len(clean) |-> Encode(clean[k])]
         IN  result_embeddings(Len(texts), valid_indices(texts), embeddings)

\* history of lines 190-218: whether model.encode was called and how it ended
EncodeOutcome(loaded, texts, encode_ok) ==
    IF ~loaded \/ texts = <<>> \/ clean_texts(texts) = <<>> THEN "no"
    ELSE IF encode_ok THEN "ok" ELSE "error"

Min(a, b) == IF a < b THEN a ELSE b

\* lines 257-280
process_text_chunks(loaded, chunk_list, encode_ok) ==
    IF chunk_list = <<>> THEN <<>>
    ELSE LET texts == [k \in 1..Len(chunk_list) |-> chunk_list[k].text]
             embeddings == generate_batch_embeddings(loaded, texts, encode_ok)
         IN  [k \in 1..Min(Len(chunk_list), Len(embeddings)) |->
                 <<chunk_list[k], embeddings[k]>>]

\* the longest list of texts or chunks submitted in one batch
MaxBatch == 3

LongText == Filler(420) \o <<" ">> \o Filler(200)

EmbedTexts ==
    {NoneStr, <<>>, <<" ", "a", "b", " ">>, <<"a", "b", "c">>,
     <<" ", "a", "b", "c", "d", " ">>, LongText}

TextLists == UNION {[1..n -> EmbedTexts] : n \in 0..MaxBatch}

\* chunks as process_document builds them, one per text and position
WordStarts(text) ==
    {k \in 1..Len(text) : text[k] # " " /\ (k = 1 \/ text[k - 1] = " ")}

EmbedChunk(text, index) ==
    TextChunk(text, index, Cardinality(WordStarts(text)), Len(text), "content",
              <<>>, EmptyMeta)

ChunkLists ==
    {[k \in 1..Len(texts) |-> EmbedChunk(texts[k], k - 1)] :
        texts \in UNION {[1..n -> EmbedTexts \ {NoneStr}] : n \in 0..MaxBatch}}

\* the state of the VectorStorage and of its database
storage == <<connection, stats, database, last_connect, effect>>

\* lines 60-82. SentenceTransformer(...) raises; or it returns and the test
\* encoding raises; or both succeed
load_model ==
    /\ pc = "idle"
    /\ call' = "load_model"
    /\ \/ /\ generator_model' = generator_model
          /\ value' = FALSE
       \/ /\ generator_model' = "loaded"
          /\ value' \in BOOLEAN
    /\ encoded' = "no"
    /\ result' = <<>>
    /\ raised' = "none"
    /\ pc' = "done"
    /\ UNCHANGED <<requested, storage, memo, config, title, content, metadata, doc_chunks,
                   sentences, i, current_chunk, overlap_buffer, chunk_index,
                   chunks, closed>>

generate_batch_embeddings_call(texts) ==
    /\ pc = "idle"
    /\ call' = "generate_batch_embeddings"
    /\ content' = texts
    /\ \E encode_ok \in BOOLEAN :
          /\ value' = generate_batch_embeddings(generator_model # "None", texts,
                                                encode_ok)
          /\ encoded' = EncodeOutcome(generator_model # "None", texts, encode_ok)
    /\ result' = <<>>
    /\ raised' = "none"
    /\ pc' = "done"
    /\ UNCHANGED <<requested, storage, generator_model, memo, config, title, metadata, doc_chunks,
                   sentences, i, current_chunk, overlap_buffer, chunk_index,
                   chunks, closed>>

process_text_chunks_call(chunk_list) ==
    /\ pc = "idle"
    /\ call' = "process_text_chunks"
    /\ content' = chunk_list
    /\ \E encode_ok \in BOOLEAN :
          /\ value' = process_text_chunks(generator_model # "None", chunk_list,
                                          encode_ok)
          /\ encoded' = EncodeOutcome(generator_model # "None",
                            [k \in 1..Len(chunk_list) |-> chunk_list[k].text],
                            encode_ok)
    /\ result' = <<>>
    /\ raised' = "none"
    /\ pc' = "done"
    /\ UNCHANGED <<requested, storage, generator_model, memo, config, title, metadata, doc_chunks,
                   sentences, i, current_chunk, overlap_buffer, chunk_index,
                   chunks, closed>>

\* one TextProcessor configuration
InitOne == InitRepeat /\ ~use_spacy

NextEmbed ==
    \/ load_model
    \/ \E texts \in TextLists : generate_batch_embeddings_call(texts)
    \/ \E chunk_list \in ChunkLists : process_text_chunks_call(chunk_list)
    \/ Discard

SpecEmbed == InitOne /\ [][NextEmbed]_vars

(***************************************************************************)
(* VectorStorage (src/database/vector_storage.py)                          *)
(***************************************************************************)
\* Python None where the id of a row is expected; the ids are positive
NoneId == -1

\* the rows one table can hold
MaxRows == 3

\* the longest chunk_embeddings list
MaxPairs == 2

\* how one statement and its commit end: "ok"; "error", the statement is
\* refused and the connection stays usable; "lost", the link to the server
\* breaks and every later operation on the connection raises, rollback
\* included
Fates == {"ok", "error", "lost"}

FateLists == [1..(MaxPairs + 1) -> Fates]

\* what happens to an operation on the connection conn
Fate(conn, fate) == IF conn = "lost" THEN "lost" ELSE fate

StoredDocument ==
    [title |-> <<"T">>, content |-> <<"abc">>, source_url |-> <<"u">>,
     domain |-> "rh"]

\* (chunk, embedding) pairs as process_text_chunks returns them
PairLists ==
    {process_text_chunks(TRUE,
         [k \in 1..Len(texts) |-> EmbedChunk(texts[k], k - 1)], TRUE) :
     texts \in UNION {[1..n -> {<<" ", "a", "b", " ">>, <<"a", "b", "c">>}] :
                         n \in 0..MaxPairs}}

\* the call returns to its caller
StorageReturn(name, val, exc) ==
    /\ call' = name
    /\ value' = val
    /\ raised' = exc
    /\ result' = <<>>
    /\ pc' = "done"
    /\ UNCHANGED <<requested, generator_model, encoded, memo, config, title,
                   metadata, doc_chunks, sentences, i, current_chunk, overlap_buffer,
                   chunk_index, chunks, closed>>

\* lines 62-87. psycopg2.connect raises ("refused"): self.connection keeps
\* what it held. Otherwise the new connection is assigned at line 65, and
\* then the version query raises ("broken"), the pgvector row is missing
\* (line 81, "no_pgvector") or the check passes ("ok")
connect ==
    /\ pc = "idle"
    /\ \E outcome \in {"refused", "broken", "no_pgvector", "ok"} :
          /\ connection' = CASE outcome = "refused" -> connection
                             [] outcome = "broken" -> "lost"
                             [] OTHER -> "open"
          /\ last_connect' = IF outcome = "ok" THEN "connect_true"
                             ELSE "connect_false"
          /\ StorageReturn("connect", outcome = "ok", "none")
    /\ content' = <<>>
    /\ effect' = NoEffect
    /\ UNCHANGED <<stats, database>>

\* lines 91-94
disconnect ==
    /\ pc = "idle"
    /\ connection' = "None"
    /\ last_connect' = "disconnect"
    /\ StorageReturn("disconnect", "None", "none")
    /\ content' = <<>>
    /\ effect' = NoEffect
    /\ UNCHANGED <<stats, database>>

\* lines 106-137 as a function of the connection and of the fate of the
\* INSERT and its commit: the id or "None", whether a row was committed,
\* the connection afterwards, and whether rollback raised out of the method
store_document(conn, fate) ==
    IF conn = "None"
    THEN [id |-> NoneId, rows |-> 0, connection |-> conn, raised |-> FALSE,
          touched |-> FALSE]
    ELSE CASE Fate(conn, fate) = "ok" ->
                [id |-> database.documents + 1, rows |-> 1, connection |-> conn,
                 raised |-> FALSE, touched |-> TRUE]
           [] Fate(conn, fate) = "error" ->
                [id |-> NoneId, rows |-> 0, connection |-> conn,
                 raised |-> FALSE, touched |-> TRUE]
           [] OTHER ->
                [id |-> NoneId, rows |-> 0, connection |-> "lost",
                 raised |-> TRUE, touched |-> TRUE]

\* lines 154-193, in the same way
store_chunk_with_embedding(conn, embedding, rows_before, fate) ==
    IF conn = "None" \/ embedding = NoneEmbedding
    THEN [id |-> NoneId, rows |-> 0, connection |-> conn, raised |-> FALSE,
          touched |-> FALSE]
    ELSE CASE Fate(conn, fate) = "ok" ->
                [id |-> rows_before + 1, rows |-> 1, connection |-> conn,
                 raised |-> FALSE, touched |-> TRUE]
           [] Fate(conn, fate) = "error" ->
                [id |-> NoneId, rows |-> 0, connection |-> conn,
                 raised |-> FALSE, touched |-> TRUE]
           [] OTHER ->
                [id |-> NoneId, rows |-> 0, connection |-> "lost",
                 raised |-> TRUE, touched |-> TRUE]

\* lines 227-236: the loop from pair k on, with stored_chunks and
\* failed_chunks so far; it ends after the last pair or when an exception
\* leaves store_chunk_with_embedding
RECURSIVE StoreChunks(_, _, _, _, _, _)
StoreChunks(chunk_embeddings, k, conn, fates, stored_chunks, failed_chunks) ==
    IF k > Len(chunk_embeddings)
    THEN [stored |-> stored_chunks, failed |-> failed_chunks,
          connection |-> conn, raised |-> FALSE]
    ELSE IF chunk_embeddings[k][2] = NoneEmbedding
    THEN StoreChunks(chunk_embeddings, k + 1, conn, fates, stored_chunks,
                     failed_chunks + 1)
    ELSE LET r == store_chunk_with_embedding(conn, chunk_embeddings[k][2],
                      database.text_chunks + stored_chunks, fates[k + 1])
         IN  IF r.raised
             THEN [stored |-> stored_chunks, failed |-> failed_chunks,
                   connection |-> r.connection, raised |-> TRUE]
             ELSE IF r.id # NoneId
             THEN StoreChunks(chunk_embeddings, k + 1, r.connection, fates,
                              stored_chunks + 1, failed_chunks)
             ELSE StoreChunks(chunk_embeddings, k + 1, r.connection, fates,
                              stored_chunks, failed_chunks + 1)

\* lines 106-137
store_document_call(document) ==
    /\ pc = "idle"
    /\ database.documents < MaxRows
    /\ \E fate \in Fates :
          LET r == store_document(connection, fate)
          IN  /\ connection' = r.connection
              /\ database' = [database EXCEPT !.documents = @ + r.rows]
              /\ stats' = [stats EXCEPT !.documents_stored = @ + r.rows]
              /\ effect' = [documents |-> r.rows, chunks |-> 0, failed |-> 0,
                            touched |-> r.touched]
              /\ StorageReturn("store_document", r.id,
                               IF r.raised THEN "InterfaceError" ELSE "none")
    /\ content' = document
    /\ UNCHANGED last_connect

\* lines 154-193
store_chunk_with_embedding_call(pair) ==
    /\ pc = "idle"
    /\ database.text_chunks < MaxRows
    /\ \E fate \in Fates :
          LET r == store_chunk_with_embedding(connection, pair[2],
                                              database.text_chunks, fate)
          IN  /\ connection' = r.connection
              /\ database' = [database EXCEPT !.text_chunks = @ + r.rows]
              /\ stats' = [stats EXCEPT !.chunks_stored = @ + r.rows]
              /\ effect' = [documents |-> 0, chunks |-> r.rows, failed |-> 0,
                            touched |-> r.touched]
              /\ StorageReturn("store_chunk_with_embedding", r.id,
                               IF r.raised THEN "InterfaceError" ELSE "none")
    /\ content' = <<pair>>
    /\ UNCHANGED last_connect

\* lines 210-255. An exception that leaves store_document or
\* store_chunk_with_embedding is caught at line 253
store_document_with_chunks(document, chunk_embeddings) ==
    /\ pc = "idle"
    /\ database.documents < MaxRows
    /\ database.text_chunks + Len(chunk_embeddings) <= MaxRows
    /\ content' = chunk_embeddings
    /\ UNCHANGED last_connect
    /\ IF chunk_embeddings = <<>>
       THEN /\ effect' = NoEffect
            /\ StorageReturn("store_document_with_chunks", NoneId, "none")
            /\ UNCHANGED <<connection, stats, database>>
       ELSE \E fates \in FateLists :
            LET d == store_document(connection, fates[1])
                c == StoreChunks(chunk_embeddings, 1, d.connection, fates, 0, 0)
            IN  IF d.id = NoneId
                THEN /\ connection' = d.connection
                     /\ effect' = [NoEffect EXCEPT !.touched = d.touched]
                     /\ StorageReturn("store_document_with_chunks", NoneId, "none")
                     /\ UNCHANGED <<stats, database>>
                ELSE /\ connection' = c.connection
                     /\ database' = [documents |-> database.documents + 1,
                                     text_chunks |-> database.text_chunks + c.stored]
                     /\ stats' = [documents_stored |-> stats.documents_stored + 1,
                                  chunks_stored |-> stats.chunks_stored + c.stored]
                     /\ effect' = [documents |-> 1, chunks |-> c.stored,
                                   failed |-> c.failed, touched |-> TRUE]
                     /\ StorageReturn("store_document_with_chunks",
                                      IF c.raised THEN NoneId ELSE d.id, "none")

\* lines 272-327: without a connection the empty list; otherwise the query
\* runs, and the rows found (their number here) or, after an exception, the
\* empty list are returned
search_similar_chunks ==
    /\ pc = "idle"
    /\ \E fate \in Fates :
          /\ IF connection = "None"
             THEN /\ effect' = NoEffect
                  /\ connection' = connection
                  /\ StorageReturn("search_similar_chunks", <<>>, "none")
             ELSE /\ effect' = [NoEffect EXCEPT !.touched = TRUE]
                  /\ connection' = IF Fate(connection, fate) = "lost"
                                   THEN "lost" ELSE connection
                  /\ StorageReturn("search_similar_chunks",
                         IF Fate(connection, fate) = "ok"
                         THEN [k \in 1..database.text_chunks |-> k] ELSE <<>>,
                         "none")
    /\ content' = <<>>
    /\ UNCHANGED <<stats, database, last_connect>>

NextStore ==
    \/ connect
    \/ disconnect
    \/ store_document_call(StoredDocument)
    \/ \E pairs \in PairLists \ {<<>>} : store_chunk_with_embedding_call(pairs[1])
    \/ \E pairs \in PairLists : store_document_with_chunks(StoredDocument, pairs)
    \/ search_similar_chunks
    \/ Discard

SpecStore == InitOne /\ [][NextStore]_vars

(***************************************************************************)
(* ServicePublicExtractor.extract_fiche (service_public.py lines 219-279)  *)
(***************************************************************************)
\* the literal part of fiche_pattern (lines 38-40), the escaped dots being
\* dots
FichePrefix ==
    <<"h", "t", "t", "p", "s", ":", "/", "/", "e", "n", "t", "r", "e",
    "p", "r", "e", "n", "d", "r", "e", ".", "s", "e", "r", "v", "i", "c",
    "e", "-", "p", "u", "b", "l", "i", "c", ".", "f", "r", "/", "v", "o",
    "s", "d", "r", "o", "i", "t", "s", "/">>

\* self.fiche_pattern.match(url) is not None: the pattern is looked for at
\* the start of url, and what follows the first digit is not examined
fiche_pattern_match(url) ==
    /\ Len(url) >= Len(FichePrefix) + 2
    /\ \A k \in 1..Len(FichePrefix) : url[k] = FichePrefix[k]
    /\ url[Len(FichePrefix) + 1] \in {"N", "F"}
    /\ IsDigit(url[Len(FichePrefix) + 2])

\* re.search(r'/([NF]\d+)$', url), line 263: where the last segment starts,
\* or 0 when the url does not end with such a segment
fiche_match(url) ==
    LET starts == {k \in 1..(Len(url) - 2) :
                      /\ url[k] = "/"
                      /\ url[k + 1] \in {"N", "F"}
                      /\ \A j \in (k + 2)..Len(url) : IsDigit(url[j])}
    IN  IF starts = {} THEN 0 ELSE CHOOSE k \in starts : TRUE

\* Python None where an ExtractedDocument is expected
NoneDocument == [none |-> TRUE]

\* get_page returned None
NoPage == [none |-> TRUE]

\* the shortest content of a fiche, line 244
MinFicheContent == 200

\* lines 244-271, for the (title, content) pair that extract_fiche_content
\* returned
fiche_document(url, t, c) ==
    IF Len(c) < MinFicheContent THEN NoneDocument
    ELSE LET classified == classify_fiche_domain(t, c)
             base == [content_length |-> Len(c),
                      title_length |-> Len(t),
                      source_type |-> "fiche_pratique",
                      subcategory |-> classified[2],
                      url_pattern |-> "entreprendre_service_public"]
             meta == IF fiche_match(url) # 0
                     THEN Update(base, [fiche_number |->
                              SubSeq(url, fiche_match(url) + 1, Len(url))])
                     ELSE base
         IN  [title |-> t, content |-> c, source_url |-> url,
              domain |-> classified[1], metadata |-> meta]

\* the urls of test_url_patterns_update (test_service_public.py lines
\* 103-108), then a fiche url without digits, with another letter, followed
\* by a path, followed by a query, with another character for the dot, and
\* preceded by a space
FicheUrls ==
    { FichePrefix \o <<"N", "2", "4", "2", "6", "7">>,
      FichePrefix \o <<"F", "1", "2", "3", "4", "5">>,
      <<"h", "t", "t", "p", "s", ":", "/", "/", "e", "n", "t", "r", "e",
      "p", "r", "e", "n", "d", "r", "e", ".", "s", "e", "r", "v", "i", "c",
      "e", "-", "p", "u", "b", "l", "i", "c", ".", "f", "r", "/", "v", "o",
      "s", "d", "r", "o", "i", "t", "s">>,
      <<"h", "t", "t", "p", "s", ":", "/", "/", "w", "w", "w", ".", "s",
      "e", "r", "v", "i", "c", "e", "-", "p", "u", "b", "l", "i", "c", ".",
      "f", "r", "/", "e", "n", "t", "r", "e", "p", "r", "i", "s", "e", "s",
      "/", "v", "o", "s", "d", "r", "o", "i", "t", "s", "/", "F", "1", "2",
      "3">>,
      FichePrefix \o <<"N">>,
      FichePrefix \o <<"X", "1", "2">>,
      FichePrefix \o <<"N", "2", "4", "2", "6", "7", "/", "a", "n", "n", "e", "x", "e">>,
      FichePrefix \o <<"F", "1", "?", "x">>,
      <<"h", "t", "t", "p", "s", ":", "/", "/", "e", "n", "t", "r", "e",
      "p", "r", "e", "n", "d", "r", "e", "-", "s", "e", "r", "v", "i", "c",
      "e", "-", "p", "u", "b", "l", "i", "c", ".", "f", "r", "/", "v", "o",
      "s", "d", "r", "o", "i", "t", "s", "/", "N", "1">>,
      <<" ", "h", "t", "t", "p", "s", ":", "/", "/", "e", "n", "t", "r",
      "e", "p", "r", "e", "n", "d", "r", "e", ".", "s", "e", "r", "v", "i",
      "c", "e", "-", "p", "u", "b", "l", "i", "c", ".", "f", "r", "/", "v",
      "o", "s", "d", "r", "o", "i", "t", "s", "/", "N", "1">> }

\* what get_page and extract_fiche_content give for the url: no page, or
\* the (title, content) pair of the page
FichePages ==
    { NoPage,
      [title |-> <<>>, content |-> <<>>],
      [title |-> <<"T">>, content |-> Filler(199)],
      [title |-> <<"T">>, content |-> Filler(200)],
      [title |-> <<"S", "A", "R", "L">>, content |-> Filler(201)] }

\* lines 231-279
extract_fiche(url, page) ==
    /\ pc = "idle"
    /\ call' = "extract_fiche"
    /\ content' = url
    /\ IF ~fiche_pattern_match(url)
       THEN /\ value' = NoneDocument
            /\ requested' = requested
       ELSE /\ requested' = requested \cup {url}
            /\ value' = IF page = NoPage THEN NoneDocument
                        ELSE fiche_document(url, page.title, page.content)
    /\ result' = <<>>
    /\ raised' = "none"
    /\ pc' = "done"
    /\ UNCHANGED <<storage, generator_model, encoded, memo, config, title,
                   metadata, doc_chunks, sentences, i, current_chunk,
                   overlap_buffer, chunk_index, chunks, closed>>

NextFiche ==
    \/ \E url \in FicheUrls, page \in FichePages : extract_fiche(url, page)
    \/ Discard

SpecFiche == InitOne /\ [][NextFiche]_vars

(***************************************************************************)
(* Properties                                                              *)
(***************************************************************************)
\* a call that returns a list of chunks has returned
Returned ==
    /\ pc = "done"
    /\ raised = "none"
    /\ call \in {"process_document", "create_chunks_with_overlap"}

ReturnedDocument == Returned /\ call = "process_document"

\* the loop and the close after it have run
LoopFinished == pc \in {"merge", "done"} /\ call # "none" /\ raised = "none"

ClosedInLoop(rec) == ~rec.final

Emitted(rec) == rec.emitted

Dropped(rec) == ~rec.emitted

ContentFloor(c) ==
    c.chunk_type = "content" =>
        c.char_count = Len(c.text) /\ c.char_count >= min_chunk_size

C2_ContiguousIndex ==
    ReturnedDocument =>
        \A k \in 1..Len(result) : result[k].chunk_index = k - 1

\* a returned list with a title chunk and content chunks, where a buffer
\* was dropped between two emitted ones
C2_Witness ==
    /\ ReturnedDocument
    /\ Len(result) >= 3
    /\ result[1].chunk_type = "title"
    /\ \E a, b, c \in 1..Len(closed) :
        /\ a < b /\ b < c
        /\ Emitted(closed[a]) /\ Dropped(closed[b]) /\ Emitted(closed[c])

\* C4: a title chunk of the returned list is its first element, has
\* chunk_index 0 and one keyword; every other chunk is a content chunk.
C4_TitlePrecedence ==
    ReturnedDocument =>
        \A k \in 1..Len(result) :
            /\ result[k].chunk_type \in {"title", "content"}
            /\ result[k].chunk_type = "title" =>
                   k = 1 /\ result[k].chunk_index = 0 /\ Len(result[k].keywords) = 1
            /\ k > 1 => result[k].chunk_type = "content"

\* a returned list that holds a title chunk and content chunks
C4_Witness ==
    /\ ReturnedDocument
    /\ Len(result) >= 2
    /\ result[1].chunk_type = "title"
    /\ result[2].chunk_type = "content"

\* C5: when clean_text(content) is shorter than min_chunk_size,
\* process_document returns an empty list, whatever the title string and
\* the metadata; no title chunk is emitted.
C5_TooShortIsEmpty ==
    ( /\ pc = "done"
      /\ call = "process_document"
      /\ title # NoneStr
      /\ Len(clean_text(content)) < min_chunk_size )
    => (raised = "none" /\ result = <<>>)

\* a short, non-empty content with a title long enough for a title chunk
C5_Witness ==
    /\ ReturnedDocument
    /\ HasTitleChunk(title)
    /\ clean_text(content) # <<>>
    /\ Len(clean_text(content)) < min_chunk_size
    /\ result = <<>>

\* the sentences of the buffers of recs, in order
RECURSIVE SentencesOf(_)
SentencesOf(recs) ==
    IF recs = <<>> THEN <<>>
    ELSE Slice(sentences, recs[1].first, recs[1].last) \o SentencesOf(Tail(recs))

EmittedOrFinal(rec) == rec.emitted \/ rec.final

\* C3 as stated: the buffers of the emitted chunks reproduce the input
\* sentence sequence, except only for the sentences of a final buffer that
\* was dropped.
C3_OnlyFinalLost ==
    LoopFinished => SentencesOf(SelectSeq(closed, EmittedOrFinal)) = sentences

\* C3 as amended: the buffers of all closed chunks, emitted or dropped,
\* concatenated in order, reproduce the input sentence sequence; the emitted
\* chunks are exactly the closed buffers that reach the floor (carry + buffer
\* inside the loop, the buffer alone after it), so the only sentences missing
\* from the emitted chunks' buffers are those of dropped buffers, in the loop
\* or after it.
C3_ClosedBuffersCoverInput ==
    LoopFinished =>
        LET kept == SelectSeq(closed, Emitted)
        IN  /\ SentencesOf(closed) = sentences
            /\ \A k \in 1..Len(closed) :
                /\ closed[k].first <= closed[k].last
                /\ closed[k].buffer =
                       Join(Slice(sentences, closed[k].first, closed[k].last))
                /\ closed[k].text = Strip(closed[k].carry \o <<" ">> \o closed[k].buffer)
                /\ Dropped(closed[k]) =>
                       IF closed[k].final
                       THEN Len(closed[k].buffer) < min_chunk_size
                       ELSE Len(closed[k].text) < min_chunk_size
            /\ Len(kept) = Len(chunks)
            /\ \A k \in 1..Len(kept) : chunks[k].text = kept[k].text

\* a buffer dropped inside the loop, with a chunk emitted after it
C3_Witness ==
    /\ LoopFinished
    /\ \E a, b \in 1..Len(closed) :
        /\ a < b
        /\ ClosedInLoop(closed[a]) /\ Dropped(closed[a])
        /\ Len(Split(closed[a].buffer)) > 2
        /\ Emitted(closed[b])

\* C6 as stated: process_document never ends in an error, and returns an
\* empty list when content is empty or missing.
C6_NeverRaises ==
    (pc = "done" /\ call = "process_document") =>
        /\ raised = "none"
        /\ content \in {NoneStr, <<>>} => result = <<>>

\* C7 as stated: the buffer left after the loop is emitted exactly when it is
\* non-empty and the trimmed carry + ' ' + buffer reaches min_chunk_size.
C7_FinalEmission ==
    LoopFinished =>
        ( (\E k \in 1..Len(closed) : closed[k].final /\ Emitted(closed[k]))
          <=> ( /\ current_chunk # <<>>
                /\ Len(Strip(overlap_buffer \o <<" ">> \o current_chunk))
                       >= min_chunk_size ) )

\* C8 as stated: in the returned list every structural flag the engine set
\* on a chunk keeps the engine's value, whatever the caller's metadata holds
\* under the same key.
C8_StructuralFlagsWin ==
    ReturnedDocument =>
        LET kept == SelectSeq(closed, Emitted)
            shift == Len(doc_chunks)
        IN  /\ \A k \in 1..shift : result[k].metadata.is_title = TRUE
            /\ \A k \in 1..Len(kept) :
                LET c == result[shift + k]
                IN  /\ c.metadata.sentence_count = sentence_count(c.text)
                    /\ kept[k].final => c.metadata.is_final = TRUE
                    /\ ~kept[k].final =>
                        /\ c.metadata.has_numbers = has_numbers(c.text)
                        /\ c.metadata.has_dates = has_dates(c.text)
                        /\ c.metadata.complexity = complexity(c.text)

StructuralKeys == {"sentence_count", "has_numbers", "has_dates", "complexity"}

\* C9 as stated: the metadata of every content chunk built by
\* create_chunks_with_overlap holds the four structural flags.
C9_FourFlags ==
    (LoopFinished /\ call = "create_chunks_with_overlap") =>
        \A k \in 1..Len(chunks) : StructuralKeys \subseteq DOMAIN chunks[k].metadata

\* C10 as stated: closing a buffer of more than 10 words leaves the trailing
\* floor(overlap / 10) words as the carry; closing a shorter buffer leaves
\* the whole buffer.
C10_CarrySize ==
    \A r \in 1..Len(closed) :
        ClosedInLoop(closed[r]) =>
            LET words == Split(closed[r].buffer)
                n == Len(words)
                k == overlap \div 10
                lo == IF k > n THEN 1 ELSE n - k + 1
            IN  IF n > 10
                THEN closed[r].next_carry = Join(Slice(words, lo, n))
                ELSE closed[r].next_carry = closed[r].buffer

C12_SentenceNeverSplit ==
    /\ \A k \in 1..Len(closed) :
        /\ closed[k].first = (IF k = 1 THEN 1 ELSE closed[k - 1].last + 1)
        /\ closed[k].first <= closed[k].last
        /\ closed[k].buffer =
               Join(Slice(sentences, closed[k].first, closed[k].last))
        /\ \A j \in closed[k].first..closed[k].last :
               Len(sentences[j]) > chunk_size => closed[k].first = closed[k].last
    /\ pc = "loop" =>
        /\ current_chunk = Join(Slice(sentences, BufferStart, i))
        /\ \A j \in BufferStart..i :
               Len(sentences[j]) > chunk_size => BufferStart = i
    /\ (LoopFinished /\ sentences # <<>>) =>
        closed # <<>> /\ closed[Len(closed)].last = Len(sentences)

\* a sentence longer than chunk_size, between two other sentences, emitted
\* alone behind the carry
C12_Witness ==
    /\ LoopFinished
    /\ \E k \in 2..(Len(closed) - 1) :
        /\ closed[k].first = closed[k].last
        /\ Len(sentences[closed[k].first]) > chunk_size
        /\ Emitted(closed[k])
        /\ closed[k].text = closed[k].carry \o <<" ">> \o sentences[closed[k].first]

\* C14: every chunk returned by process_document, the title chunk included,
\* has char_count = len(text) and word_count = the number of
\* whitespace-separated words of text.
C14_DerivedCounts ==
    ReturnedDocument =>
        \A k \in 1..Len(result) :
            /\ result[k].char_count = Len(result[k].text)
            /\ result[k].word_count = Len(Split(result[k].text))

\* the categories of the chunk table
Categories == {chunk_keywords[e][1] : e \in 1..Len(chunk_keywords)}

\* the category has a keyword that is a substring of the lower-cased text
Matched(e, text_lower) ==
    \E w \in 1..Len(chunk_keywords[e][2]) :
        Contains(text_lower, chunk_keywords[e][2][w])

KeywordsFor(text, kw) ==
    LET text_lower == Lower(text)
        matched == {e \in 1..Len(chunk_keywords) : Matched(e, text_lower)}
    IN  /\ kw # <<>>
        /\ \/ kw = <<"general">>
           \/ /\ \A a, b \in 1..Len(kw) : a # b => kw[a] # kw[b]
              /\ \A a \in 1..Len(kw) : kw[a] \in Categories
        /\ \A e \in 1..Len(chunk_keywords) :
               (\E a \in 1..Len(kw) : kw[a] = chunk_keywords[e][1]) <=> e \in matched
        /\ (kw = <<"general">>) <=> (matched = {})

\* C15: classify_chunk_content returns a non-empty list, ['general'] or a
\* duplicate-free list of table categories; a category is in it iff one of
\* its keywords is a substring of the lower-cased text, and 'general' is
\* returned iff no category matched. The keywords of every content chunk are
\* that result for the chunk's full text, carry included.
C15_ChunkKeywords ==
    /\ (pc = "done" /\ call = "classify_chunk_content") =>
           KeywordsFor(content, value)
    /\ Returned =>
           \A k \in 1..Len(result) :
               result[k].chunk_type = "content" =>
                   KeywordsFor(result[k].text, result[k].keywords)

\* a text with upper-case keywords of two categories
C15_Witness ==
    /\ pc = "done"
    /\ call = "classify_chunk_content"
    /\ content # Lower(content)
    /\ value = <<"obligation", "droit">>

\* a content chunk whose category comes from its carry alone
C15_CarryWitness ==
    /\ LoopFinished
    /\ \E k \in 1..Len(closed) :
        /\ Emitted(closed[k])
        /\ ~Contains(closed[k].buffer, <<"d", "o", "i", "t">>)
        /\ \E c \in 1..Len(chunks) :
            /\ chunks[c].text = closed[k].text
            /\ chunks[c].keywords = <<"obligation">>

HasTitle(chunk_list) == chunk_list # <<>> /\ chunk_list[1].chunk_type = "title"

StartsAtZero(chunk_list) ==
    chunk_list # <<>> =>
        chunk_list[1].chunk_type = "content" /\ chunk_list[1].chunk_index = 0

\* C16 as stated: with a content whose normalized length is at least
\* min_chunk_size, a title chunk is emitted iff the title is non-empty and
\* longer than 10 characters; otherwise the content chunks start at index 0.
C16_TitleOverTen ==
    (ReturnedDocument /\ Len(clean_text(content)) >= min_chunk_size) =>
        /\ HasTitle(result) <=> (title # <<>> /\ Len(title) > 10)
        /\ Len(title) <= 10 => StartsAtZero(result)

\* C16 amended: the length that is compared with 10 is that of the title
\* without its leading and trailing whitespace.
C16_TitleStripped ==
    (ReturnedDocument /\ Len(clean_text(content)) >= min_chunk_size) =>
        /\ HasTitle(result) <=> (title # <<>> /\ Len(Strip(title)) > 10)
        /\ Len(Strip(title)) <= 10 => StartsAtZero(result)

\* a title longer than 10 characters whose stripped form is not, with
\* content chunks starting at 0
C16_Witness ==
    /\ ReturnedDocument
    /\ Len(title) > 10
    /\ Len(Strip(title)) <= 10
    /\ result # <<>>
    /\ StartsAtZero(result)

ReturnedText == pc = "done" /\ call = "clean_text"

\* C19: in the output of clean_text no mark among , . ! ? ; : is preceded by
\* a space and each mark is followed by exactly one space, runs of marks and
\* a mark between digits included.
C19_PunctuationSpacing ==
    ReturnedText =>
        \A k \in 1..Len(value) :
            IsPunct(value[k]) =>
                /\ k > 1 => value[k - 1] # " "
                /\ k < Len(value) /\ value[k + 1] = " "
                /\ k + 2 <= Len(value) => value[k + 2] # " "

\* two non-blank paragraphs of the text are separated by a blank line
HasParagraphBreak(text) ==
    \E k \in 1..(Len(text) - 1) :
        /\ text[k] = "\n" /\ text[k + 1] = "\n"
        /\ \E a \in 1..(k - 1) : ~IsSpace(text[a])
        /\ \E b \in (k + 2)..Len(text) : ~IsSpace(text[b])

\* C20: two paragraphs separated by one or more blank lines in the input of
\* clean_text are separated by a single blank line in its output.
C20_BlankLinesKept ==
    (ReturnedText /\ HasParagraphBreak(content)) =>
        /\ HasParagraphBreak(value)
        /\ ~Contains(value, <<"\n", "\n", "\n">>)

\* the number of distinct keywords of words found in text
Hits(words, text) ==
    Cardinality({Lower(words[k]) : k \in {j \in 1..Len(words) :
                                            Contains(text, Lower(words[j]))}})

\* position k has the highest count, and is the first position that has it
IsBest(count, k) ==
    /\ count[k] > 0
    /\ \A j \in 1..Len(count) : count[j] <= count[k]
    /\ \A j \in 1..(k - 1) : count[j] < count[k]

DomainCount ==
    [k \in 1..Len(domain_keywords) |->
        Hits(domain_keywords[k][2], text_to_analyze(title, content, DomainWindow))]

FicheCount ==
    [k \in 1..Len(classification_keywords) |->
        Hits(classification_keywords[k][2],
             text_to_analyze(title, content, FicheWindow))]

ReturnedDomain == pc = "done" /\ call = "classify_domain"

ReturnedFiche == pc = "done" /\ call = "classify_fiche_domain"

\* C17: classify_domain and classify_fiche_domain return the category with
\* the highest number of distinct keywords found in the lower-cased window,
\* the first one defined when several share it; classify_fiche_domain
\* returns with it the domain the table gives for that subcategory.
C17_BestScoreFirstDefined ==
    /\ ReturnedDomain =>
        \A k \in 1..Len(domain_keywords) :
            IsBest(DomainCount, k) => value = <<domain_keywords[k][1]>>
    /\ ReturnedFiche =>
        \A k \in 1..Len(classification_keywords) :
            IsBest(FicheCount, k) =>
                value = <<classification_keywords[k][3], classification_keywords[k][1]>>

\* two subcategories share the highest count, with two keywords each, and
\* the one defined first is returned
C17_Witness ==
    /\ ReturnedFiche
    /\ \E k, j \in 1..Len(classification_keywords) :
        /\ k < j
        /\ IsBest(FicheCount, k)
        /\ FicheCount[j] = FicheCount[k]
        /\ FicheCount[k] >= 2
        /\ value[2] = classification_keywords[k][1]

\* C18: classify_domain returns 'autre', classify_fiche_domain returns
\* ('juridique', 'general') and classify_chunk_content returns ['general']
\* exactly when no keyword of any category occurs in the analysed text, and
\* none of them ends in an error.
C18_SentinelIffNoMatch ==
    /\ ReturnedDomain =>
        /\ raised = "none"
        /\ value = <<"autre">> <=>
               (\A k \in 1..Len(domain_keywords) : DomainCount[k] = 0)
    /\ ReturnedFiche =>
        /\ raised = "none"
        /\ value = <<"juridique", "general">> <=>
               (\A k \in 1..Len(classification_keywords) : FicheCount[k] = 0)
    /\ (pc = "done" /\ call = "classify_chunk_content") =>
        /\ raised = "none"
        /\ value = <<"general">> <=>
               (\A e \in 1..Len(chunk_keywords) : ~Matched(e, Lower(content)))

\* a content whose only keywords lie beyond the analysed window
C18_Witness ==
    /\ ReturnedDomain
    /\ value = <<"autre">>
    /\ Len(content) > DomainWindow
    /\ \E k \in 1..Len(domain_keywords) :
           Hits(domain_keywords[k][2], Lower(content)) > 0

ReturnedSentences == pc = "done" /\ call = "smart_split_sentences"

\* the abbreviation a at index k of text, its period and the text that
\* follows are inside one returned sentence
KeptWith(text, sents, k, a) ==
    LET e == k + Len(a) + 1
        n == SkipSpace(text, e)
        shown == IF n > Len(text) \/ IsStop(text[n]) THEN a \o <<".">>
                 ELSE a \o <<".", " ">> \o Slice(text, e + 1, n)
    IN  \E j \in 1..Len(sents) : Contains(sents[j], shown)

\* C21: with the regex strategy no sentence boundary is placed directly
\* after one of the abbreviations followed by whitespace: the abbreviation,
\* with its period, and the text after it are in one returned sentence, and
\* no returned sentence holds the sentinel.
C21_AbbreviationsProtected ==
    (ReturnedSentences /\ ~use_spacy) =>
        /\ \A k \in 1..Len(content) : \A a \in Abbreviations :
               AbbrevAt(content, k, a) => KeptWith(content, value, k, a)
        /\ \A j \in 1..Len(value) : \A q \in 1..Len(value[j]) :
               value[j][q] # ABBREV

\* a text with two protected abbreviations and a boundary between them
C21_Witness ==
    /\ ReturnedSentences
    /\ ~use_spacy
    /\ Len(value) = 2
    /\ \E k, l \in 1..Len(content) :
        /\ k < l
        /\ AbbrevAt(content, k, <<"M">>)
        /\ AbbrevAt(content, l, <<"M", "m", "e">>)

\* sentence occurs in text at index p
OccursAt(text, p, sentence) ==
    /\ p + Len(sentence) - 1 <= Len(text)
    /\ \A q \in 1..Len(sentence) : text[p + q - 1] = sentence[q]

\* from index k on, text is the sentences j, j+1, ... in order, with only
\* whitespace and boundary marks before, between and after them
RECURSIVE InOrder(_, _, _, _)
InOrder(text, k, sents, j) ==
    IF j > Len(sents)
    THEN \A q \in k..Len(text) : IsSpace(text[q]) \/ IsStop(text[q])
    ELSE \E p \in k..Len(text) :
            /\ \A q \in k..(p - 1) : IsSpace(text[q]) \/ IsStop(text[q])
            /\ OccursAt(text, p, sents[j])
            /\ InOrder(text, p + Len(sents[j]), sents, j + 1)

\* C22: the returned sentences are non-empty, without leading or trailing
\* whitespace, and are the fragments of the text between its boundaries, each
\* once and in the order of the text; nothing but whitespace and boundary
\* marks is left out.
C22_OrderAndContent ==
    ReturnedSentences =>
        /\ \A j \in 1..Len(value) : value[j] # <<>> /\ Strip(value[j]) = value[j]
        /\ InOrder(content, 1, value, 1)

\* the texts whose fragments the regex strategy rewrites: the sentinel is in
\* the text, or the whitespace after a protected abbreviation is not a space
Rewritten(text) ==
    \/ \E q \in 1..Len(text) : text[q] = ABBREV
    \/ \E k \in 1..Len(text) : \E a \in Abbreviations :
           AbbrevAt(text, k, a) /\ text[k + Len(a) + 1] # " "

C22_ExceptRewritten ==
    (ReturnedSentences /\ ~(~use_spacy /\ Rewritten(content))) =>
        /\ \A j \in 1..Len(value) : value[j] # <<>> /\ Strip(value[j]) = value[j]
        /\ InOrder(content, 1, value, 1)

\* C23: a TextProcessor built while the model could not be loaded uses the
\* regex strategy, and no step of any call changes the strategy or the model
\* chosen at construction.
C23_StrategyFixedAtConstruction ==
    /\ [](nlp = NoModel => ~use_spacy)
    /\ [][use_spacy' = use_spacy /\ nlp' = nlp]_vars

\* without a model, process_document has returned chunks of a text that the
\* regex strategy split into several sentences
C23_Witness ==
    /\ ReturnedDocument
    /\ nlp = NoModel
    /\ ~use_spacy
    /\ Len(sentences) >= 2
    /\ sentences = RegexSentences(clean_text(content))
    /\ result # <<>>

ChunkerOutput ==
    \/ pc = "merge"
    \/ pc = "done" /\ call = "create_chunks_with_overlap" /\ raised = "none"

IsFinal(c) == "is_final" \in DOMAIN c.metadata /\ c.metadata.is_final = TRUE

\* C25: in the output of create_chunks_with_overlap a chunk has
\* is_final = True iff it was built by the close after the loop; at most one
\* chunk has it, and it is the last of the list, with the highest index.
C25_FinalFlagOnlyOnLast ==
    /\ pc = "loop" => \A k \in 1..Len(chunks) : ~IsFinal(chunks[k])
    /\ ChunkerOutput =>
        LET kept == SelectSeq(closed, Emitted)
        IN  /\ Len(kept) = Len(chunks)
            /\ \A k \in 1..Len(chunks) :
                /\ IsFinal(chunks[k]) <=> kept[k].final
                /\ IsFinal(chunks[k]) =>
                    /\ k = Len(chunks)
                    /\ \A j \in 1..Len(chunks) :
                           j # k => chunks[j].chunk_index < chunks[k].chunk_index

\* an output of three chunks whose last one is the final chunk
C25_Witness ==
    /\ ChunkerOutput
    /\ Len(chunks) = 3
    /\ IsFinal(chunks[3])
    /\ ~IsFinal(chunks[1])
    /\ ~IsFinal(chunks[2])

\* C26: after every iteration the buffer is at most chunk_size long or is one
\* sentence; a closed buffer longer than chunk_size is one sentence; there
\* are never more emitted chunks than input sentences.
C26_BufferBound ==
    /\ pc = "loop" => (Len(current_chunk) <= chunk_size \/ BufferStart = i)
    /\ \A k \in 1..Len(closed) :
           Len(closed[k].buffer) > chunk_size => closed[k].first = closed[k].last
    /\ pc \in {"loop", "merge", "done"} => Len(chunks) <= Len(sentences)

\* the loop ended with an emitted buffer of one over-long sentence and an
\* emitted buffer of several sentences within chunk_size
C26_Witness ==
    /\ LoopFinished
    /\ \E a, b \in 1..Len(closed) :
        /\ Emitted(closed[a]) /\ Len(closed[a].buffer) > chunk_size
        /\ Emitted(closed[b]) /\ closed[b].first < closed[b].last
        /\ Len(closed[b].buffer) <= chunk_size

\* C27: generate_batch_embeddings returns one entry per text; the entry at a
\* position is an embedding exactly when the model is loaded, the text at
\* that position has at least 3 characters once stripped and the batch
\* encoding succeeded, and it is then the embedding of that text;
\* process_text_chunks returns one pair per chunk, in order, each chunk with
\* the embedding of its own text or None
C27_BatchAligned ==
    /\ (pc = "done" /\ call = "generate_batch_embeddings") =>
          /\ Len(value) = Len(content)
          /\ \A p \in 1..Len(content) :
                /\ value[p] # NoneEmbedding <=>
                      /\ generator_model # "None"
                      /\ ValidText(content[p])
                      /\ encoded = "ok"
                /\ value[p] # NoneEmbedding =>
                      value[p] = Encode(preprocess_text_for_embedding(content[p]))
    /\ (pc = "done" /\ call = "process_text_chunks") =>
          /\ Len(value) = Len(content)
          /\ \A p \in 1..Len(content) :
                /\ value[p][1] = content[p]
                /\ value[p][2] # NoneEmbedding <=>
                      /\ generator_model # "None"
                      /\ ValidText(content[p].text)
                      /\ encoded = "ok"
                /\ value[p][2] # NoneEmbedding =>
                      value[p][2] =
                          Encode(preprocess_text_for_embedding(content[p].text))

\* a batch whose second text is too short returned two different embeddings
\* around a None
C27_Witness ==
    /\ pc = "done"
    /\ call = "generate_batch_embeddings"
    /\ Len(value) = 3
    /\ value[1] # NoneEmbedding
    /\ value[2] = NoneEmbedding
    /\ value[3] # NoneEmbedding
    /\ value[1] # value[3]

\* C28: when store_document_with_chunks returns None, the call has committed
\* neither the document row nor any chunk row; when it returns an id, the
\* document row is committed and the committed chunk rows plus the failed
\* or embedding-less chunks are as many as the pairs it was given
C28_NoneMeansNothingPersisted ==
    (pc = "done" /\ call = "store_document_with_chunks") =>
        /\ value = NoneId => effect.documents = 0 /\ effect.chunks = 0
        /\ value # NoneId =>
              /\ effect.documents = 1
              /\ effect.chunks + effect.failed = Len(content)

\* C29: VectorStorage holds a connection exactly when the most recent
\* connect or disconnect was a connect that returned True; after a connect
\* that returned False, store_document, store_chunk_with_embedding and
\* search_similar_chunks return None or the empty list and leave the
\* database and the counters alone
C29_ConnectionFollowsConnect ==
    /\ connection # "None" <=> last_connect = "connect_true"
    /\ ( /\ pc = "done"
         /\ last_connect = "connect_false"
         /\ call \in {"store_document", "store_chunk_with_embedding",
                      "search_similar_chunks"} ) =>
           /\ IF call = "search_similar_chunks" THEN value = <<>>
              ELSE value = NoneId
           /\ ~effect.touched
           /\ effect.documents = 0
           /\ effect.chunks = 0

\* the url is the fiche address followed by N or F and one or more digits,
\* and nothing else
IsFicheUrl(url) ==
    \E letter \in {"N", "F"}, n \in 1..Len(url) :
        /\ Len(url) = Len(FichePrefix) + 1 + n
        /\ SubSeq(url, 1, Len(FichePrefix) + 1) = FichePrefix \o <<letter>>
        /\ \A k \in (Len(FichePrefix) + 2)..Len(url) : IsDigit(url[k])

\* the url begins with such an address
BeginsWithFicheUrl(url) == \E n \in 1..Len(url) : IsFicheUrl(SubSeq(url, 1, n))

\* every document extract_fiche returns carries the requested url and a
\* content of at least 200 characters
FicheDocumentSound ==
    (pc = "done" /\ call = "extract_fiche" /\ value # NoneDocument) =>
        /\ value.source_url = content
        /\ Len(value.content) >= 200

FetchOnlyFichePrefix ==
    /\ \A url \in requested : BeginsWithFicheUrl(url)
    /\ (pc = "done" /\ call = "extract_fiche" /\ ~BeginsWithFicheUrl(content)) =>
          value = NoneDocument /\ content \notin requested
    /\ FicheDocumentSound

\* a url that goes on after the digits was requested and a document was
\* returned for it
FetchedBeyondFiche ==
    /\ pc = "done"
    /\ call = "extract_fiche"
    /\ BeginsWithFicheUrl(content)
    /\ ~IsFicheUrl(content)
    /\ content \in requested
    /\ value # NoneDocument
    /\ value.source_url = content

====
